---- MODULE Spec2Model ----
(***************************************************************************)
(* A model of the 2D topological operators of the anisotropic mesh         *)
(* adaptation library: Coarsen2D (edge collapse), Refine2D (edge           *)
(* bisection) and Swapping (2D edge flip), together with the part of the   *)
(* mesh adjacency structure (NNList, NEList, ENList) they mutate.          *)
(*                                                                         *)
(* Conventions.                                                            *)
(*  - Vertices and elements are numbered from 0 as in the C++ code;        *)
(*    per-vertex and per-element arrays are functions on 0..n-1.           *)
(*  - std::vector is a TLA+ sequence (1-based): the C++ index k of a       *)
(*    vector is the index k+1 of the sequence.                             *)
(*  - Coordinates are integer pairs, the metric of a vertex is isotropic   *)
(*    (m*I) with integer m.  A metric edge length l is carried as the      *)
(*    integer 2*l^2 = (m_a+m_b)*|b-a|^2; comparing two lengths, or a       *)
(*    length with a threshold held in the same unit, is then exact.        *)
(***************************************************************************)
EXTENDS Integers, Sequences, FiniteSets, TLC

VARIABLES
  \* ---- Mesh (shared by the operators)
  NNodes,            \* _mesh->NNodes
  NElements,         \* _mesh->NElements
  ENList,            \* _mesh->_ENList : element -> <<n0,n1,n2>>, n0 = -1 when erased
  boundary,          \* _mesh->boundary: element -> <<b0,b1,b2>>, facet k opposite vertex k
  NNList,            \* _mesh->NNList  : vertex -> sequence of neighbours
  NEList,            \* _mesh->NEList  : vertex -> set of elements
  coords,            \* _mesh->_coords : vertex -> <<x,y>>
  metric,            \* _mesh->metric  : vertex -> m (isotropic)
  lnn2gnn,           \* _mesh->lnn2gnn : vertex -> global id
  node_owner,        \* _mesh->node_owner
  recv_halo,         \* _mesh->recv_halo
  send_halo,         \* _mesh->send_halo
  facets,            \* Surface2D: the boundary facets, each [n |-> {a,b}, plane |-> p]
  \* ---- Coarsen2D
  dynamic_vertex,    \* Coarsen2D::dynamic_vertex
  L_low,             \* Coarsen2D::_L_low (unit: 2*l^2)
  L_max,             \* Coarsen2D::_L_max, Refine2D::refine's L_max (unit: 2*l^2)
  cpc,               \* where coarsen() is
  ci,                \* the Phase 2 loop index i
  phase_2,           \* the Phase 2 flag
  sweeps,            \* number of operator calls made so far
  lastCollapse,      \* history: the last collapse made and the mesh before it
  erased,            \* history: the vertices erased so far
  cthreads,          \* Coarsen2D::nthreads: the number of threads of the run
  tpartition,        \* coarsen: tpartition, vertex -> thread
  tdynamic_vertex,   \* coarsen: tdynamic_vertex of each thread
  cth,               \* where each thread is in Phase 1, its iterator it and its cnt
  \* ---- Refine2D
  rpc,               \* where refine() is
  ri,                \* the index of the omp-for loop refine() is in
  origNNodes,        \* refine: origNNodes
  origNElements,     \* refine: origNElements
  new_vertices_per_element,  \* Refine2D::new_vertices_per_element
  newVertices,       \* Refine2D::newVertices, newCoords, newMetric: thread -> sequence
  splitCnt,          \* Refine2D::splitCnt : thread -> count
  threadIdx,         \* Refine2D::threadIdx: thread -> first index, -1 before the capture
  allNewVertices,    \* refine: allNewVertices
  deferred,          \* Mesh::deferred_operations: thread -> queues
  pre,               \* history: ENList, boundary, NNList, NEList, lnn2gnn when refine() was entered
  childrenOf,        \* history: original element -> elements made from it
  \* ---- Swapping (2D)
  spc,               \* where swap() is
  si,                \* the next index the running omp-for loop hands out
  quality,           \* swap: quality, element -> <<numerator, denominator>>
  marked_edges,      \* swap: marked_edges, vertex -> sequence of 0/1
  n_marked_edges,    \* swap: n_marked_edges
  originalVertexDegree,  \* Swapping::originalVertexDegree
  localNEList,       \* swap: the local NEList, vertex -> sequence with -1 for a free slot
  th,                \* the locals of each thread in the swapping loop
  flips,             \* history: the flips committed by this call of swap()
  swapPre,           \* history: ENList, NNList, NEList, marked_edges after the initialisation
  passes,            \* history: the passes of the while loop begun by this call of swap()
  firstRun,          \* history: ENList at the end of an earlier execution on the same input
  \* ---- Swapping (3D)
  partialEEList,     \* swap: partialEEList, poor element -> its four face neighbours (-1: none)
  s3                 \* swap: renumber, colour, max_colour, the loop indices c and i; history

meshVars    == <<NNodes, NElements, ENList, boundary, NNList, NEList, coords,
                 metric, lnn2gnn, node_owner, recv_halo, send_halo, facets>>
phase1Vars  == <<cthreads, tpartition, tdynamic_vertex, cth>>
coarsenVars == <<dynamic_vertex, L_low, cpc, ci, phase_2, lastCollapse, erased, phase1Vars>>
refineVars  == <<rpc, ri, origNNodes, origNElements, new_vertices_per_element,
                 newVertices, splitCnt, threadIdx, allNewVertices, deferred,
                 pre, childrenOf>>
swapVars    == <<spc, si, quality, marked_edges, n_marked_edges, originalVertexDegree,
                 localNEList, th, flips, swapPre, passes, firstRun, partialEEList, s3>>
vars        == <<meshVars, coarsenVars, refineVars, swapVars, L_max, sweeps>>

-----------------------------------------------------------------------------
(* Bounds of the model *)

\* The operator is called at most this many times in a row
MaxSweeps == 2

-----------------------------------------------------------------------------
(* Generic helpers *)

Range(s) == {s[k] : k \in DOMAIN s}

\* std::find on a vector: the first position of x, 0 when absent (end())
IndexOf(s, x) ==
  IF \E k \in DOMAIN s : s[k] = x
  THEN CHOOSE k \in DOMAIN s : s[k] = x /\ \A j \in 1..(k-1) : s[j] # x
  ELSE 0

\* std::vector::erase(position)
RemoveAt(s, k) == [j \in 1..(Len(s)-1) |-> IF j < k THEN s[j] ELSE s[j+1]]

NoDup(s) == \A j, k \in DOMAIN s : j # k => s[j] # s[k]

SetMin(S) == CHOOSE x \in S : \A y \in S : x <= y

\* the elements of a std::set<index_t> in iteration (ascending) order
RECURSIVE SortedSeq(_)
SortedSeq(S) == IF S = {} THEN <<>>
                ELSE LET m == SetMin(S) IN <<m>> \o SortedSeq(S \ {m})

Min2(a, b) == IF a <= b THEN a ELSE b

-----------------------------------------------------------------------------
(* Metric and geometry *)

Dist2(a, b) == (coords[a][1] - coords[b][1]) * (coords[a][1] - coords[b][1])
             + (coords[a][2] - coords[b][2]) * (coords[a][2] - coords[b][2])

\* Mesh::calc_edge_length(a,b): the length of (a,b) under the mean metric
\* (m_a+m_b)/2, here as 2*l^2
calc_edge_length(a, b) == (metric[a] + metric[b]) * Dist2(a, b)

\* ElementProperty::area(x0,x1,x2) for the orientation of the input mesh
\* (counter-clockwise), here as twice the signed area
area(x0, x1, x2) == (x1[1] - x0[1]) * (x2[2] - x0[2])
                  - (x1[2] - x0[2]) * (x2[1] - x0[1])

ElementArea(n) == area(coords[n[1]], coords[n[2]], coords[n[3]])

-----------------------------------------------------------------------------
(* MeshStore: the operations of Mesh the operators call.  A mesh value is  *)
(* a record [NN, NE, EN, F]: NNList, NEList, ENList and the surface facets *)

CurrentMesh == [NN |-> NNList, NE |-> NEList, EN |-> ENList, F |-> facets]

is_halo_node(v)  == v \in recv_halo \/ v \in send_halo
is_owned_node(v) == node_owner[v] = 0

\* Mesh::erase_element: the element leaves the NEList of its vertices and
\* its first vertex becomes the sentinel -1
erase_element(M, e) ==
  [M EXCEPT !.NE = [v \in DOMAIN M.NE |->
                      IF v \in Range(M.EN[e]) THEN M.NE[v] \ {e} ELSE M.NE[v]],
            !.EN[e] = [M.EN[e] EXCEPT ![1] = -1]]

RECURSIVE erase_elements(_, _)
erase_elements(M, s) ==
  IF s = <<>> THEN M ELSE erase_elements(erase_element(M, Head(s)), Tail(s))

\* Mesh::erase_vertex: both adjacency lists of the vertex are cleared
erase_vertex(M, v) == [M EXCEPT !.NN[v] = <<>>, !.NE[v] = {}]

\* Mesh::get_node_patch: the neighbours of a vertex as a set
get_node_patch(M, v) == Range(M.NN[v])

-----------------------------------------------------------------------------
(* SurfaceModel: the predicates of Surface2D that Coarsen2D consults *)

SNEList(F, v) == {f \in F : v \in f.n}

contains_node(F, v) == SNEList(F, v) # {}

is_corner_vertex(F, v) == Cardinality({f.plane : f \in SNEList(F, v)}) >= 2

is_collapsible(F, free, target) ==
  IF ~contains_node(F, free) THEN TRUE
  ELSE IF ~contains_node(F, target) THEN FALSE
  ELSE \E p \in {f.plane : f \in SNEList(F, target)} :
          {f.plane : f \in SNEList(F, free)} = {p}

\* Surface2D::collapse: the facets holding both vertices go, the other
\* facets of the vertex removed are renumbered to the target
surface_collapse(F, free, target) ==
  {f \in F : free \notin f.n} \cup
  {[n |-> (f.n \ {free}) \cup {target}, plane |-> f.plane] :
      f \in {g \in F : free \in g.n /\ target \notin g.n}}

-----------------------------------------------------------------------------
(* Coarsen2D *)

\* a plausible slip: a ratio of exactly 1.0e-3 is let through
AreaRejected_Strict(a, orig_area) ==
  IF orig_area > 0 THEN 1000 * a < orig_area
  ELSE IF orig_area < 0 THEN 1000 * a > orig_area
  ELSE a < 0

\* area/orig_area <= 1.0e-3 in IEEE arithmetic (x/0 is +-inf or NaN)
AreaRejected(a, orig_area) ==
  IF orig_area > 0 THEN 1000 * a <= orig_area
  ELSE IF orig_area < 0 THEN 1000 * a >= orig_area
  ELSE a < 0

\* the copy of element n with rm_vertex replaced by target_vertex
ProposedElement(n, rm_vertex, target_vertex) ==
  [k \in 1..3 |-> IF n[k] = rm_vertex THEN target_vertex ELSE n[k]]

\* "Check volume/area of new elements."
AreaCheckFails(M, rm_vertex, target_vertex) ==
  LET collapsed_elements == M.NE[rm_vertex] \cap M.NE[target_vertex] IN
  \E ee \in M.NE[rm_vertex] \ collapsed_elements :
     AreaRejected(ElementArea(ProposedElement(M.EN[ee], rm_vertex, target_vertex)),
                  ElementArea(M.EN[ee]))

\* "Check of any of the new edges are longer than L_max."
LengthCheckFails(M, rm_vertex, target_vertex) ==
  \E k \in DOMAIN M.NN[rm_vertex] :
     /\ M.NN[rm_vertex][k] # target_vertex
     /\ calc_edge_length(target_vertex, M.NN[rm_vertex][k]) > L_max

RejectCollapse(M, rm_vertex, target_vertex) ==
  AreaCheckFails(M, rm_vertex, target_vertex) \/ LengthCheckFails(M, rm_vertex, target_vertex)

\* a plausible slip: the candidates are kept in the order of NNList
InsertByLength_Append(s, p) == Append(s, p)

\* std::multimap::insert: after the entries whose key is not greater
InsertByLength(s, p) ==
  LET k == Cardinality({j \in DOMAIN s : s[j][1] <= p[1]})
  IN [j \in 1..(Len(s)+1) |-> IF j <= k THEN s[j] ELSE IF j = k+1 THEN p ELSE s[j-1]]

\* the multimap short_edges built from the first k entries of NNList[rm_vertex]
RECURSIVE ShortEdges(_, _, _)
ShortEdges(M, rm_vertex, k) ==
  IF k = 0 THEN <<>>
  ELSE LET nn   == M.NN[rm_vertex][k]
           rest == ShortEdges(M, rm_vertex, k-1)
       IN IF nn \in recv_halo THEN rest
          ELSE IF ~is_collapsible(M.F, rm_vertex, nn) THEN rest
          ELSE IF calc_edge_length(rm_vertex, nn) < L_low
               THEN InsertByLength(rest, <<calc_edge_length(rm_vertex, nn), nn>>)
               ELSE rest

\* a plausible slip: -1 when every candidate was rejected
RECURSIVE NextShortest_MinusOne(_, _, _)
NextShortest_MinusOne(M, rm_vertex, short_edges) ==
  IF short_edges = <<>> THEN -1
  ELSE IF ~RejectCollapse(M, rm_vertex, Head(short_edges)[2])
       THEN Head(short_edges)[2]
       ELSE NextShortest_MinusOne(M, rm_vertex, Tail(short_edges))

\* the while loop over short_edges: the first candidate that is not
\* rejected; -2 when every candidate was rejected
RECURSIVE NextShortest(_, _, _)
NextShortest(M, rm_vertex, short_edges) ==
  IF short_edges = <<>> THEN -2
  ELSE IF ~RejectCollapse(M, rm_vertex, Head(short_edges)[2])
       THEN Head(short_edges)[2]
       ELSE NextShortest(M, rm_vertex, Tail(short_edges))

coarsen_identify_kernel(M, rm_vertex) ==
  IF M.NN[rm_vertex] = <<>> THEN -1
  ELSE IF is_corner_vertex(M.F, rm_vertex) THEN -1
  ELSE IF ~is_owned_node(rm_vertex) THEN -1
  ELSE LET short_edges == ShortEdges(M, rm_vertex, Len(M.NN[rm_vertex]))
       IN IF short_edges = <<>> THEN -1
          ELSE NextShortest(M, rm_vertex, short_edges)

\* "Renumber nodes in elements adjacent to rm_vertex": the first occurrence
\* of rm_vertex in each remaining element becomes target_vertex, and the
\* element enters NEList[target_vertex]
RenumberElement(n, rm_vertex, target_vertex) ==
  IF IndexOf(n, rm_vertex) = 0 THEN n
  ELSE [n EXCEPT ![IndexOf(n, rm_vertex)] = target_vertex]

Renumber(M, rm_vertex, target_vertex) ==
  [M EXCEPT !.EN = [e \in DOMAIN M.EN |->
                      IF e \in M.NE[rm_vertex]
                      THEN RenumberElement(M.EN[e], rm_vertex, target_vertex)
                      ELSE M.EN[e]],
            !.NE[target_vertex] = M.NE[target_vertex] \cup M.NE[rm_vertex]]

\* a plausible slip: the back reference is always overwritten
UpdateBackReference_Overwrite(list, back_reference, in_patch, target_vertex) ==
  [list EXCEPT ![back_reference] = target_vertex]

\* "if(new_patch.count(*nn)) erase(back_reference) else *back_reference = target_vertex"
UpdateBackReference(list, back_reference, in_patch, target_vertex) ==
  IF in_patch THEN RemoveAt(list, back_reference)
  ELSE [list EXCEPT ![back_reference] = target_vertex]

\* "Update surrounding NNList": s is what is left of NNList[rm_vertex].
\* ok is FALSE when the assertion on back_reference fails.
RECURSIVE UpdateBackReferences(_, _, _, _, _)
UpdateBackReferences(NN, new_patch, s, rm_vertex, target_vertex) ==
  IF s = <<>> THEN [NN |-> NN, new_patch |-> new_patch, ok |-> TRUE]
  ELSE LET nn == Head(s) IN
       IF nn = target_vertex
       THEN UpdateBackReferences(NN, new_patch, Tail(s), rm_vertex, target_vertex)
       ELSE LET back_reference == IndexOf(NN[nn], rm_vertex) IN
            IF back_reference = 0
            THEN [NN |-> NN, new_patch |-> new_patch, ok |-> FALSE]
            ELSE UpdateBackReferences(
                   [NN EXCEPT ![nn] = UpdateBackReference(NN[nn], back_reference,
                                                          nn \in new_patch, target_vertex)],
                   new_patch \cup {nn}, Tail(s), rm_vertex, target_vertex)

\* coarsen_kernel up to erase_vertex: the mesh after the collapse
Collapse(M, rm_vertex, target_vertex) ==
  LET deleted_elements == M.NE[rm_vertex] \cap M.NE[target_vertex]
      M0 == IF contains_node(M.F, rm_vertex) /\ contains_node(M.F, target_vertex)
            THEN [M EXCEPT !.F = surface_collapse(M.F, rm_vertex, target_vertex)]
            ELSE M
      M1 == erase_elements(M0, SortedSeq(deleted_elements))
      M2 == Renumber(M1, rm_vertex, target_vertex)
      u  == UpdateBackReferences(M2.NN, get_node_patch(M2, target_vertex),
                                 M2.NN[rm_vertex], rm_vertex, target_vertex)
      M3 == [M2 EXCEPT !.NN = [u.NN EXCEPT ![target_vertex] =
                                  SortedSeq(u.new_patch \ {rm_vertex})]]
  IN [M |-> erase_vertex(M3, rm_vertex), ok |-> u.ok]

\* a plausible slip: the target and its neighbours are only flagged
Reevaluate_Flag(M, dv, rm_vertex, target_vertex) ==
  [v \in DOMAIN dv |->
     IF v = rm_vertex THEN -1
     ELSE IF v = target_vertex \/ v \in Range(M.NN[target_vertex]) THEN -2
          ELSE dv[v]]

\* a plausible slip: "dynamic_vertex[rm_vertex] = -1" is left out
Reevaluate_KeepRemoved(M, dv, rm_vertex, target_vertex) ==
  [v \in DOMAIN dv |->
     IF (v = target_vertex \/ v \in Range(M.NN[target_vertex])) /\ is_owned_node(v)
     THEN coarsen_identify_kernel(M, v)
     ELSE dv[v]]

\* "Re-evaluate local edge collapse's": dynamic_vertex after the collapse
Reevaluate(M, dv, rm_vertex, target_vertex) ==
  [v \in DOMAIN dv |->
     IF v = rm_vertex THEN -1
     ELSE IF (v = target_vertex \/ v \in Range(M.NN[target_vertex])) /\ is_owned_node(v)
          THEN coarsen_identify_kernel(M, v)
          ELSE dv[v]]

-----------------------------------------------------------------------------
(* Input meshes *)

\* Mesh::create_adjacency: NEList and NNList from the element-node list
ElementsOf(EN, v) == {e \in DOMAIN EN : EN[e][1] >= 0 /\ v \in Range(EN[e])}

NeighboursOf(EN, v) == UNION {Range(EN[e]) : e \in ElementsOf(EN, v)} \ {v}

create_adjacency(EN, n) ==
  [NE |-> [v \in 0..(n-1) |-> ElementsOf(EN, v)],
   NN |-> [v \in 0..(n-1) |-> SortedSeq(NeighboursOf(EN, v))]]

ZeroBased(s) == [k \in 0..(Len(s)-1) |-> s[k+1]]

\* The 3x3 grid on the square [0,2]^2, vertex x+3y at (x,y), eight
\* counter-clockwise triangles.
GridENList == ZeroBased(<< <<0,1,4>>, <<0,4,3>>, <<1,2,5>>, <<1,5,4>>,
                           <<3,4,7>>, <<3,7,6>>, <<4,5,8>>, <<4,8,7>> >>)
GridCoords == [v \in 0..8 |-> <<v % 3, v \div 3>>]
GridFacets == { [n |-> {0,1}, plane |-> 1], [n |-> {1,2}, plane |-> 1],
                [n |-> {2,5}, plane |-> 2], [n |-> {5,8}, plane |-> 2],
                [n |-> {7,8}, plane |-> 3], [n |-> {6,7}, plane |-> 3],
                [n |-> {3,6}, plane |-> 4], [n |-> {0,3}, plane |-> 4] }

\* the number of OpenMP threads of a parallel region
nthreads == 2
Threads  == 0..(nthreads-1)

\* the metric values and the thresholds (unit 2*l^2) the inputs are drawn from
MetricValues    == {1, 4}
CoarsenL_low    == {3, 6}
CoarsenL_max    == {12, 40}

-----------------------------------------------------------------------------
(* Coarsen2D::coarsen, one process, one thread: Phase 2 *)

NoCollapse == [rm_vertex |-> -1, target_vertex |-> -1, before |-> <<>>]

\* Phase 1 of coarsen() was never entered
Phase1Idle ==
  /\ tpartition = <<>>
  /\ tdynamic_vertex = <<>>
  /\ cth = <<>>

\* the state of a Refine2D object that was never used
RefineIdle ==
  /\ rpc = "constructed"
  /\ ri = 0
  /\ origNNodes = 0
  /\ origNElements = 0
  /\ new_vertices_per_element = <<>>
  /\ newVertices = <<>>
  /\ splitCnt = <<>>
  /\ threadIdx = <<>>
  /\ allNewVertices = <<>>
  /\ deferred = <<>>
  /\ pre = <<>>
  /\ childrenOf = <<>>

\* the locals of the 3D part of swap() before any call of it
NoSwap3 == [renumber |-> <<>>, colour |-> <<>>, max_colour |-> 0, c |-> 0, i |-> 0,
            faceSeen |-> {}, edgeSeen |-> {}, log |-> <<>>]

\* the state of a Swapping object that was never used
SwapIdle ==
  /\ spc = "constructed"
  /\ si = 0
  /\ quality = <<>>
  /\ marked_edges = <<>>
  /\ n_marked_edges = 0
  /\ originalVertexDegree = <<>>
  /\ localNEList = <<>>
  /\ th = <<>>
  /\ flips = <<>>
  /\ swapPre = <<>>
  /\ passes = 0
  /\ firstRun = <<>>
  /\ partialEEList = <<>>
  /\ s3 = NoSwap3

InitCoarsen ==
  /\ NNodes = 9
  /\ NElements = 8
  /\ ENList = GridENList
  /\ boundary = [e \in 0..7 |-> <<0,0,0>>]
  /\ NNList = create_adjacency(GridENList, 9).NN
  /\ NEList = create_adjacency(GridENList, 9).NE
  /\ coords = GridCoords
  /\ metric \in {f \in [0..8 -> MetricValues] : f[2] = 1 /\ f[6] = 1}
  /\ lnn2gnn = [v \in 0..8 |-> v]
  /\ \/ /\ recv_halo = {} /\ send_halo = {}
        /\ node_owner = [v \in 0..8 |-> 0]
     \/ /\ recv_halo = {2,5,8} /\ send_halo = {1,4,7}
        /\ node_owner = [v \in 0..8 |-> IF v \in {2,5,8} THEN 1 ELSE 0]
  /\ facets = GridFacets
  /\ dynamic_vertex = <<>>
  /\ L_low = 0 /\ L_max = 0
  /\ cpc = "constructed"
  /\ ci = 0
  /\ phase_2 = FALSE
  /\ sweeps = 0
  /\ lastCollapse = NoCollapse
  /\ erased = {}
  /\ cthreads = 1
  /\ Phase1Idle
  /\ RefineIdle
  /\ SwapIdle

\* "Initialise arrays" and "Initialise list of vertices to be coarsened"
InitialTargets ==
  [i \in 0..(NNodes-1) |-> IF NNList[i] = <<>> THEN -1
                           ELSE coarsen_identify_kernel(CurrentMesh, i)]

\* coarsen(L_low, L_max), entry: "_L_low = L_low; _L_max = L_max;"
coarsen ==
  /\ cpc \in {"constructed", "done"}
  /\ sweeps < MaxSweeps
  /\ L_low' \in CoarsenL_low
  /\ L_max' \in CoarsenL_max
  /\ cpc' = "init"
  /\ sweeps' = sweeps + 1
  /\ UNCHANGED <<meshVars, dynamic_vertex, ci, phase_2, lastCollapse, erased,
                 refineVars, swapVars, phase1Vars>>

\* the two initialisation loops of the parallel region: dynamic_vertex is
\* filled with the kernel evaluated under the thresholds of this call
CoarsenInitialise ==
  /\ cpc = "init"
  /\ dynamic_vertex' = InitialTargets
  /\ cpc' = IF cthreads > 1 THEN "partition" ELSE "phase2"
  /\ ci' = 0
  /\ phase_2' = FALSE
  /\ UNCHANGED <<meshVars, L_low, L_max, sweeps, lastCollapse, erased,
                 refineVars, swapVars, phase1Vars>>

\* "if(dynamic_vertex[target_vertex]>=0) phase_2 = true; else for(jt...)"
Phase2Again(NN, dv, target_vertex) ==
  \/ dv[target_vertex] >= 0
  \/ \E k \in DOMAIN NN[target_vertex] : dv[NN[target_vertex][k]] >= 0

\* a plausible slip: the halo test of Phase 2 is left out
Phase2Dynamic_NoHaloTest(dv, i) == dv[i] >= 0

\* a plausible slip: the negation of the halo test is lost
Phase2Dynamic_HaloOnly(dv, i) == dv[i] >= 0 /\ is_halo_node(i)

\* "if((dynamic_vertex[i]>=0)&&(!_mesh->is_halo_node(i)))"
Phase2Dynamic(dv, i) == dv[i] >= 0 /\ ~is_halo_node(i)

\* one iteration of the Phase 2 loop that collapses vertex ci
Phase2Collapse ==
  /\ cpc = "phase2"
  /\ ci < NNodes
  /\ Phase2Dynamic(dynamic_vertex, ci)
  /\ LET remove_vertex == ci
         target_vertex == dynamic_vertex[ci]
         c  == Collapse(CurrentMesh, remove_vertex, target_vertex)
         dv == Reevaluate(c.M, dynamic_vertex, remove_vertex, target_vertex)
     IN /\ NNList' = c.M.NN
        /\ NEList' = c.M.NE
        /\ ENList' = c.M.EN
        /\ facets' = c.M.F
        /\ dynamic_vertex' = dv
        /\ phase_2' = (phase_2 \/ Phase2Again(c.M.NN, dv, target_vertex))
        /\ cpc' = IF c.ok THEN "phase2" ELSE "abort"
        /\ lastCollapse' = [rm_vertex |-> remove_vertex, target_vertex |-> target_vertex,
                            before |-> CurrentMesh]
        /\ erased' = erased \cup {remove_vertex}
  /\ ci' = ci + 1
  /\ UNCHANGED <<NNodes, NElements, boundary, coords, metric, lnn2gnn, node_owner,
                 recv_halo, send_halo, L_low, L_max, sweeps, refineVars, swapVars, phase1Vars>>

\* one iteration of the Phase 2 loop that leaves vertex ci alone
Phase2Skip ==
  /\ cpc = "phase2"
  /\ ci < NNodes
  /\ ~Phase2Dynamic(dynamic_vertex, ci)
  /\ ci' = ci + 1
  /\ UNCHANGED <<meshVars, dynamic_vertex, L_low, L_max, cpc, phase_2, sweeps,
                 lastCollapse, erased, refineVars, swapVars, phase1Vars>>

\* the end of a pass of the do-while loop
Phase2NextPass ==
  /\ cpc = "phase2"
  /\ ci = NNodes
  /\ phase_2
  /\ ci' = 0
  /\ phase_2' = FALSE
  /\ UNCHANGED <<meshVars, dynamic_vertex, L_low, L_max, cpc, sweeps, lastCollapse, erased,
                 refineVars, swapVars, phase1Vars>>

Phase2Exit ==
  /\ cpc = "phase2"
  /\ ci = NNodes
  /\ ~phase_2
  /\ cpc' = "done"
  /\ UNCHANGED <<meshVars, dynamic_vertex, L_low, L_max, ci, phase_2, sweeps,
                 lastCollapse, erased, refineVars, swapVars, phase1Vars>>

NextCoarsen == coarsen \/ CoarsenInitialise \/ Phase2Collapse \/ Phase2Skip \/ Phase2NextPass \/ Phase2Exit

SpecCoarsen == InitCoarsen /\ [][NextCoarsen]_vars

-----------------------------------------------------------------------------
(* Coarsen2D::coarsen with several threads: Phase 1, then Phase 2.  Every  *)
(* call of coarsen_kernel is one step; the locations a step reads and      *)
(* writes are kept as sets of pairs <<array, index>>.                      *)

\* The strip [0,5]x[0,1]: vertex x+6y at (x,y), ten counter-clockwise
\* triangles.
StripENList == ZeroBased(<< <<0,1,7>>, <<0,7,6>>, <<1,2,8>>, <<1,8,7>>, <<2,3,9>>,
                            <<2,9,8>>, <<3,4,10>>, <<3,10,9>>, <<4,5,11>>, <<4,11,10>> >>)
StripCoords == [v \in 0..11 |-> <<v % 6, v \div 6>>]
StripFacets == {[n |-> {x, x+1}, plane |-> 1] : x \in 0..4} \cup
               {[n |-> {5, 11}, plane |-> 2]} \cup
               {[n |-> {x+6, x+7}, plane |-> 3] : x \in 0..4} \cup
               {[n |-> {0, 6}, plane |-> 4]}

\* pragmatic::partition_fast: the partitions of the strip the model draws
\* from, by columns
Partitions == { [v \in 0..11 |-> IF v % 6 < 3 THEN 0 ELSE 1],
                [v \in 0..11 |-> IF v % 6 < 2 THEN 1 ELSE 0] }

InitCoarsenThreads ==
  /\ NNodes = 12
  /\ NElements = 10
  /\ ENList = StripENList
  /\ boundary = [e \in 0..9 |-> <<0,0,0>>]
  /\ NNList = create_adjacency(StripENList, 12).NN
  /\ NEList = create_adjacency(StripENList, 12).NE
  /\ coords = StripCoords
  /\ metric \in {[v \in 0..11 |-> 1], [v \in 0..11 |-> IF v \in {2, 9} THEN 4 ELSE 1]}
  /\ lnn2gnn = [v \in 0..11 |-> v]
  /\ recv_halo = {} /\ send_halo = {}
  /\ node_owner = [v \in 0..11 |-> 0]
  /\ facets = StripFacets
  /\ dynamic_vertex = <<>>
  /\ L_low = 0 /\ L_max = 0
  /\ cpc = "constructed"
  /\ ci = 0
  /\ phase_2 = FALSE
  /\ sweeps = 0
  /\ lastCollapse = NoCollapse
  /\ erased = {}
  /\ cthreads = nthreads
  /\ Phase1Idle
  /\ RefineIdle
  /\ SwapIdle

\* "#pragma omp single { partition_fast(NNList, dynamic_vertex, nthreads, tpartition) }"
Phase1Partition ==
  /\ cpc = "partition"
  /\ tpartition' \in Partitions
  /\ tdynamic_vertex' = [t \in Threads |-> <<>>]
  /\ cth' = [t \in Threads |-> [pc |-> "list", it |-> 0, cnt |-> 0]]
  /\ cpc' = "phase1"
  /\ UNCHANGED <<meshVars, dynamic_vertex, L_low, L_max, ci, phase_2, sweeps,
                 lastCollapse, erased, cthreads, refineVars, swapVars>>

\* "Each thread creates a list of vertices it is responsible for
\* collapsing": the vertices of the thread that have a target, are not in
\* a halo and have no neighbour in another part
ThreadList(tid) ==
  SortedSeq({i \in 0..(NNodes-1) :
               /\ tid = tpartition[i]
               /\ dynamic_vertex[i] >= 0
               /\ ~is_halo_node(i)
               /\ \A k \in DOMAIN NNList[i] : tpartition[NNList[i][k]] = tid})

\* what the construction of the list reads: dynamic_vertex[i] of every
\* vertex of the thread and NNList[i] of those that pass the first tests
ListReads(tid) ==
  {<<"dynamic_vertex", i>> : i \in {j \in 0..(NNodes-1) : tid = tpartition[j]}} \cup
  {<<"NNList", i>> : i \in {j \in 0..(NNodes-1) :
                              /\ tid = tpartition[j]
                              /\ dynamic_vertex[j] >= 0
                              /\ ~is_halo_node(j)}}

Phase1List(tid) ==
  /\ cpc = "phase1"
  /\ cth[tid].pc = "list"
  /\ tdynamic_vertex' = [tdynamic_vertex EXCEPT ![tid] = ThreadList(tid)]
  /\ cth' = [cth EXCEPT ![tid] = [pc |-> "loop", it |-> 1, cnt |-> 0]]
  /\ UNCHANGED <<meshVars, dynamic_vertex, L_low, L_max, cpc, ci, phase_2, sweeps,
                 lastCollapse, erased, cthreads, tpartition, refineVars, swapVars>>

\* the candidates the while loop of coarsen_identify_kernel examines
RECURSIVE Examined(_, _, _)
Examined(M, rm_vertex, short_edges) ==
  IF short_edges = <<>> THEN {}
  ELSE IF ~RejectCollapse(M, rm_vertex, Head(short_edges)[2])
       THEN {Head(short_edges)[2]}
       ELSE {Head(short_edges)[2]} \cup Examined(M, rm_vertex, Tail(short_edges))

\* the elements the area loop reads before it breaks
AreaReads(M, rm_vertex, target_vertex) ==
  LET others == M.NE[rm_vertex] \ (M.NE[rm_vertex] \cap M.NE[target_vertex])
      bad    == {e \in others :
                   AreaRejected(ElementArea(ProposedElement(M.EN[e], rm_vertex, target_vertex)),
                                ElementArea(M.EN[e]))}
  IN IF bad = {} THEN others ELSE {e \in others : e <= SetMin(bad)}

\* the locations coarsen_identify_kernel(rm_vertex) reads
IdentifyReads(M, rm_vertex) ==
  {<<"NNList", rm_vertex>>} \cup
  IF \/ M.NN[rm_vertex] = <<>>
     \/ is_corner_vertex(M.F, rm_vertex)
     \/ ~is_owned_node(rm_vertex)
  THEN {}
  ELSE LET ex == Examined(M, rm_vertex, ShortEdges(M, rm_vertex, Len(M.NN[rm_vertex])))
       IN (IF ex = {} THEN {} ELSE {<<"NEList", rm_vertex>>}) \cup
          {<<"NEList", t>> : t \in ex} \cup
          {<<"ENList", e>> : e \in UNION {AreaReads(M, rm_vertex, t) : t \in ex}}

\* the vertices whose target coarsen_kernel evaluates again
Reevaluated(M, target_vertex) ==
  {v \in {target_vertex} \cup Range(M.NN[target_vertex]) : is_owned_node(v)}

\* the locations coarsen_kernel(rm_vertex, target_vertex) writes
KernelWrites(M, rm_vertex, target_vertex) ==
  LET deleted_elements == M.NE[rm_vertex] \cap M.NE[target_vertex] IN
  {<<"ENList", e>> : e \in M.NE[rm_vertex]} \cup
  {<<"NEList", v>> : v \in UNION {Range(M.EN[e]) : e \in deleted_elements}} \cup
  {<<"NEList", rm_vertex>>, <<"NEList", target_vertex>>, <<"NNList", rm_vertex>>,
   <<"dynamic_vertex", rm_vertex>>} \cup
  {<<"NNList", nn>> : nn \in Range(M.NN[rm_vertex])} \cup
  {<<"dynamic_vertex", v>> :
      v \in Reevaluated(Collapse(M, rm_vertex, target_vertex).M, target_vertex)}

\* the locations coarsen_kernel(rm_vertex, target_vertex) reads
KernelReads(M, rm_vertex, target_vertex) ==
  LET after == Collapse(M, rm_vertex, target_vertex).M IN
  {<<"NEList", rm_vertex>>, <<"NEList", target_vertex>>, <<"NNList", rm_vertex>>,
   <<"NNList", target_vertex>>} \cup
  {<<"ENList", e>> : e \in M.NE[rm_vertex]} \cup
  {<<"NNList", nn>> : nn \in Range(M.NN[rm_vertex])} \cup
  UNION {IdentifyReads(after, v) : v \in Reevaluated(after, target_vertex)}

\* one iteration of the loop of Phase 1 that collapses a vertex
Phase1Collapse(tid) ==
  /\ cpc = "phase1"
  /\ cth[tid].pc = "loop"
  /\ cth[tid].it <= Len(tdynamic_vertex[tid])
  /\ dynamic_vertex[tdynamic_vertex[tid][cth[tid].it]] >= 0
  /\ LET remove_vertex == tdynamic_vertex[tid][cth[tid].it]
         target_vertex == dynamic_vertex[remove_vertex]
         c  == Collapse(CurrentMesh, remove_vertex, target_vertex)
     IN /\ NNList' = c.M.NN
        /\ NEList' = c.M.NE
        /\ ENList' = c.M.EN
        /\ facets' = c.M.F
        /\ dynamic_vertex' = Reevaluate(c.M, dynamic_vertex, remove_vertex, target_vertex)
        /\ cpc' = IF c.ok THEN "phase1" ELSE "abort"
        /\ lastCollapse' = [rm_vertex |-> remove_vertex, target_vertex |-> target_vertex,
                            before |-> CurrentMesh]
        /\ erased' = erased \cup {remove_vertex}
  /\ cth' = [cth EXCEPT ![tid].it = @ + 1, ![tid].cnt = @ + 1]
  /\ UNCHANGED <<NNodes, NElements, boundary, coords, metric, lnn2gnn, node_owner,
                 recv_halo, send_halo, L_low, L_max, ci, phase_2, sweeps, cthreads,
                 tpartition, tdynamic_vertex, refineVars, swapVars>>

\* "if(target_vertex<0) continue;"
Phase1Skip(tid) ==
  /\ cpc = "phase1"
  /\ cth[tid].pc = "loop"
  /\ cth[tid].it <= Len(tdynamic_vertex[tid])
  /\ dynamic_vertex[tdynamic_vertex[tid][cth[tid].it]] < 0
  /\ cth' = [cth EXCEPT ![tid].it = @ + 1]
  /\ UNCHANGED <<meshVars, dynamic_vertex, L_low, L_max, cpc, ci, phase_2, sweeps,
                 lastCollapse, erased, cthreads, tpartition, tdynamic_vertex,
                 refineVars, swapVars>>

\* "} while(cnt);" with cnt > 0
Phase1Again(tid) ==
  /\ cpc = "phase1"
  /\ cth[tid].pc = "loop"
  /\ cth[tid].it > Len(tdynamic_vertex[tid])
  /\ cth[tid].cnt > 0
  /\ cth' = [cth EXCEPT ![tid].it = 1, ![tid].cnt = 0]
  /\ UNCHANGED <<meshVars, dynamic_vertex, L_low, L_max, cpc, ci, phase_2, sweeps,
                 lastCollapse, erased, cthreads, tpartition, tdynamic_vertex,
                 refineVars, swapVars>>

\* "} while(cnt);" with cnt = 0: the thread reaches the barrier
Phase1Done(tid) ==
  /\ cpc = "phase1"
  /\ cth[tid].pc = "loop"
  /\ cth[tid].it > Len(tdynamic_vertex[tid])
  /\ cth[tid].cnt = 0
  /\ cth' = [cth EXCEPT ![tid].pc = "barrier"]
  /\ UNCHANGED <<meshVars, dynamic_vertex, L_low, L_max, cpc, ci, phase_2, sweeps,
                 lastCollapse, erased, cthreads, tpartition, tdynamic_vertex,
                 refineVars, swapVars>>

\* "#pragma omp barrier", then the single thread of Phase 2 starts
Phase1Barrier ==
  /\ cpc = "phase1"
  /\ \A t \in Threads : cth[t].pc = "barrier"
  /\ cpc' = "phase2"
  /\ ci' = 0
  /\ phase_2' = FALSE
  /\ UNCHANGED <<meshVars, dynamic_vertex, L_low, L_max, sweeps, lastCollapse, erased,
                 phase1Vars, refineVars, swapVars>>

NextCoarsenThreads ==
  \/ coarsen
  \/ CoarsenInitialise
  \/ Phase1Partition
  \/ \E t \in Threads : Phase1List(t)
  \/ \E t \in Threads : Phase1Collapse(t)
  \/ \E t \in Threads : Phase1Skip(t)
  \/ \E t \in Threads : Phase1Again(t)
  \/ \E t \in Threads : Phase1Done(t)
  \/ Phase1Barrier
  \/ Phase2Collapse
  \/ Phase2Skip
  \/ Phase2NextPass
  \/ Phase2Exit

SpecCoarsenThreads == InitCoarsenThreads /\ [][NextCoarsenThreads]_vars

\* the locations the next step of a thread of Phase 1 reads and writes
NextReads(tid) ==
  IF cth[tid].pc = "list" THEN ListReads(tid)
  ELSE IF cth[tid].pc = "loop" /\ cth[tid].it <= Len(tdynamic_vertex[tid])
  THEN LET remove_vertex == tdynamic_vertex[tid][cth[tid].it] IN
       {<<"dynamic_vertex", remove_vertex>>} \cup
       IF dynamic_vertex[remove_vertex] >= 0
       THEN KernelReads(CurrentMesh, remove_vertex, dynamic_vertex[remove_vertex])
       ELSE {}
  ELSE {}

NextWrites(tid) ==
  IF /\ cth[tid].pc = "loop"
     /\ cth[tid].it <= Len(tdynamic_vertex[tid])
     /\ dynamic_vertex[tdynamic_vertex[tid][cth[tid].it]] >= 0
  THEN KernelWrites(CurrentMesh, tdynamic_vertex[tid][cth[tid].it],
                    dynamic_vertex[tdynamic_vertex[tid][cth[tid].it]])
  ELSE {}

\* C14: in Phase 1 no location (NNList[x], NEList[x], the vertices of an
\* element, dynamic_vertex[x]) is written by the step a thread is about to
\* make while the step another thread is about to make reads or writes it;
\* no synchronisation orders the two steps.
C14_Phase1NoConflict ==
  cpc = "phase1" =>
     \A a, b \in Threads :
        a # b => NextWrites(a) \cap (NextReads(b) \cup NextWrites(b)) = {}

-----------------------------------------------------------------------------
(* Adjacency invariants of section 3 of the specification *)

AliveElements == {e \in DOMAIN ENList : ENList[e][1] >= 0}

\* invariant 1: an alive element is in the NEList of each of its vertices
ElementsInNEList ==
  \A e \in AliveElements : \A k \in 1..3 : e \in NEList[ENList[e][k]]

\* invariant 2: the two ends of an edge of an alive element list each other
EdgesInNNList ==
  \A e \in AliveElements : \A j, k \in 1..3 :
     j # k => ENList[e][k] \in Range(NNList[ENList[e][j]])

NNListNoDuplicates == \A v \in DOMAIN NNList : NoDup(NNList[v])

-----------------------------------------------------------------------------
(* Claims on Coarsen2D *)

\* C1: after every completed collapse (hence in every state coarsen() can
\* be in between two collapses, and when it returns) each alive element is in
\* the NEList of its three vertices, the two ends of each of its edges are in
\* each other's NNList, no NNList holds a duplicate and no NNList names a
\* vertex that was erased.
C1_CollapseKeepsAdjacency ==
  /\ ElementsInNEList
  /\ EdgesInNNList
  /\ NNListNoDuplicates
  /\ \A v \in DOMAIN NNList : \A k \in DOMAIN NNList[v] :
        /\ NNList[v][k] \notin erased
        /\ NNList[NNList[v][k]] # <<>>

\* C1 witness: coarsen() has returned after at least two collapses, one of
\* which met a neighbour already in the patch of the target
C1_Witness ==
  /\ cpc = "done"
  /\ Cardinality(erased) >= 2
  /\ lastCollapse.rm_vertex >= 0
  /\ \E k \in DOMAIN lastCollapse.before.NN[lastCollapse.rm_vertex] :
        /\ lastCollapse.before.NN[lastCollapse.rm_vertex][k] # lastCollapse.target_vertex
        /\ lastCollapse.before.NN[lastCollapse.rm_vertex][k]
              \in Range(lastCollapse.before.NN[lastCollapse.target_vertex])

-----------------------------------------------------------------------------
(* The contract of coarsen_identify_kernel *)

\* (d): every element of v that survives the collapse of v onto t keeps an
\* acceptable area once v is replaced by t
AreasAcceptable(v, t) ==
  \A e \in NEList[v] :
     t \notin Range(ENList[e]) =>
        ~AreaRejected(ElementArea([k \in 1..3 |-> IF ENList[e][k] = v THEN t
                                                  ELSE ENList[e][k]]),
                      ElementArea(ENList[e]))

\* (e): no edge from t to another neighbour of v is longer than L_max
NewEdgesShort(v, t) ==
  \A n \in Range(NNList[v]) \ {t} : calc_edge_length(t, n) <= L_max

\* the neighbours of v that satisfy (a)-(e)
Collapsible(v) ==
  {t \in Range(NNList[v]) :
     /\ t \notin recv_halo
     /\ is_collapsible(facets, v, t)
     /\ calc_edge_length(v, t) < L_low
     /\ AreasAcceptable(v, t)
     /\ NewEdgesShort(v, t)}

\* the vertices the contract speaks of: alive, owned and not a corner
Candidate(v) ==
  /\ NNList[v] # <<>>
  /\ is_owned_node(v)
  /\ ~is_corner_vertex(facets, v)

\* C11: for an alive, owned, non-corner vertex v, coarsen_identify_kernel
\* returns a neighbour that satisfies (a)-(e) and whose edge to v is not
\* longer than the edge to any other neighbour satisfying (a)-(e); it
\* returns a negative value exactly when no neighbour satisfies (a)-(e).
C11_IdentifyShortestCollapsible ==
  \A v \in 0..(NNodes-1) :
     Candidate(v) =>
        LET t == coarsen_identify_kernel(CurrentMesh, v) IN
        /\ (t < 0) <=> (Collapsible(v) = {})
        /\ t >= 0 => /\ t \in Collapsible(v)
                     /\ \A u \in Collapsible(v) :
                           calc_edge_length(v, t) <= calc_edge_length(v, u)

\* C11 witness: coarsen() has evaluated the kernel on a vertex whose
\* shortest edge below L_low was refused for its areas or its new edges,
\* and the kernel returned a longer edge that satisfies (a)-(e)
C11_Witness ==
  /\ cpc = "phase2"
  /\ \E v \in 0..(NNodes-1) :
        /\ Candidate(v)
        /\ dynamic_vertex[v] = coarsen_identify_kernel(CurrentMesh, v)
        /\ dynamic_vertex[v] >= 0
        /\ Cardinality(Collapsible(v)) >= 2
        /\ \E u \in Range(NNList[v]) \ Collapsible(v) :
              /\ u \notin recv_halo
              /\ is_collapsible(facets, v, u)
              /\ calc_edge_length(v, u) < calc_edge_length(v, dynamic_vertex[v])

AllEdgesShort(v) ==
  /\ NNList[v] # <<>>
  /\ \A k \in DOMAIN NNList[v] : calc_edge_length(v, NNList[v][k]) < L_low

\* C13 as stated: after coarsen(L_low, L_max) has returned every alive
\* vertex has at least one incident edge whose metric length is >= L_low.
C13_Original ==
  cpc = "done" => \A v \in 0..(NNodes-1) : NNList[v] # <<>> => ~AllEdgesShort(v)

\* C13: after coarsen(L_low, L_max) has returned, every alive vertex has
\* an incident edge whose metric length is >= L_low, unless it is a corner
\* vertex, a halo vertex or a vertex the process does not own, or none of
\* its neighbours satisfies conditions (a)-(e) of the identification kernel.
C13_ShortVertexIsConstrained ==
  cpc = "done" =>
     \A v \in 0..(NNodes-1) :
        AllEdgesShort(v) => \/ is_corner_vertex(facets, v)
                            \/ is_halo_node(v)
                            \/ ~is_owned_node(v)
                            \/ Collapsible(v) = {}

\* C13 witness: coarsen() has returned after a collapse and has left a
\* vertex that is free to move, whose edges are all shorter than L_low and
\* none of whose neighbours is an admissible target
C13_Witness ==
  /\ cpc = "done"
  /\ lastCollapse.rm_vertex >= 0
  /\ \E v \in 0..(NNodes-1) :
        /\ AllEdgesShort(v)
        /\ Candidate(v)
        /\ ~is_halo_node(v)
        /\ Collapsible(v) = {}

-----------------------------------------------------------------------------
(* Refine2D.  Reals are rationals whose denominators are cleared by the    *)
(* scale of the input: the weight of refine_edge is carried in sixths      *)
(* (exact for equal metrics and for metrics in ratio 16, rounded down to a *)
(* sixth and kept inside the open edge otherwise), and input coordinates   *)
(* and metrics are multiples of 6^MaxSweeps, so that the convex            *)
(* combinations of every sweep are integers.                               *)


\* Mesh::defOp_scaling_factor and the bucket a vertex hashes to
defOp_scaling_factor == 1
NBuckets == defOp_scaling_factor * nthreads
hash(v)  == v % NBuckets

RefineScale == 6^MaxSweeps

\* refine() is not entered on a mesh with more vertices than this
MaxRefineNodes == 5

\* a plausible slip: the weight 1, the new vertex on the second end
WeightSixths_End(m0, m1) == 6

\* the number of sixths in
\* weight = 1.0/(1.0 + sqrt(length(x0,x1,m0)/length(x0,x1,m1))),
\* with length(x0,x1,m) = sqrt(m)*|x1-x0|:  k/6 <= weight  iff
\* m0*k^4 <= m1*(6-k)^4
WeightSixths(m0, m1) ==
  LET K == {k \in 1..5 : m0 * k^4 <= m1 * (6-k)^4}
  IN IF K = {} THEN 1 ELSE CHOOSE k \in K : \A j \in K : j <= k

\* refine_edge: the DirectedEdge pushed to newVertices[tid] with the
\* coordinates and the metric pushed to newCoords[tid] and newMetric[tid]
refine_edge(a, b) ==
  LET n0 == IF lnn2gnn[a] > lnn2gnn[b] THEN b ELSE a
      n1 == IF lnn2gnn[a] > lnn2gnn[b] THEN a ELSE b
      w  == WeightSixths(metric[n0], metric[n1])
  IN [first |-> n0, second |-> n1,
      x |-> <<coords[n0][1] + (w * (coords[n1][1] - coords[n0][1])) \div 6,
              coords[n0][2] + (w * (coords[n1][2] - coords[n0][2])) \div 6>>,
      m |-> metric[n0] + (w * (metric[n1] - metric[n0])) \div 6]

\* a plausible slip: the edge whose length equals L_max is split too
IsLong_OrEqual(length, L) == length >= L

\* "if(length>L_max)"
IsLong(length, L) == length > L

\* the body of the marking loop for vertex i over the first k entries of
\* NNList[i]: the edges this iteration hands to refine_edge
RECURSIVE MarkEdges(_, _)
MarkEdges(i, k) ==
  IF k = 0 THEN <<>>
  ELSE LET otherVertex == NNList[i][k]
           rest == MarkEdges(i, k-1)
       IN IF lnn2gnn[i] < lnn2gnn[otherVertex]
             /\ IsLong(calc_edge_length(i, otherVertex), L_max)
          THEN Append(rest, refine_edge(i, otherVertex))
          ELSE rest

\* Refine2D::edgeNumber
edgeNumber(eid, v1, v2) ==
  LET n == ENList[eid]
  IN IF n[2] = v1 \/ n[2] = v2
     THEN IF n[3] = v1 \/ n[3] = v2 THEN 0 ELSE 2
     ELSE 1

\* the entry of newVertices that lands at vertex index v
NewVertexAt(v) ==
  LET tid == CHOOSE t \in Threads : threadIdx[t] <= v /\ v < threadIdx[t] + splitCnt[t]
  IN newVertices[tid][v - threadIdx[tid] + 1]

\* a plausible slip: the element is not rotated
Rotated_Not(n, j) == n

\* rotated_ele / rotated_boundary: the triple read from position j on
Rotated(n, j) == <<n[j+1], n[((j+1) % 3) + 1], n[((j+2) % 3) + 1]>>

\* "for(j) if(newVertex[j] >= 0){...; break;}": the first split edge
FirstSplit(nv) == CHOOSE j \in 0..2 : nv[j+1] >= 0 /\ \A i \in 0..(j-1) : ~(nv[i+1] >= 0)

\* "for(j) if(newVertex[j] < 0){...; break;}": the first edge not split
FirstNotSplit(nv) == CHOOSE j \in 0..2 : nv[j+1] < 0 /\ \A i \in 0..(j-1) : ~(nv[i+1] < 0)

\* a plausible slip: the tags of the two facets next to the new edge swapped
SingleBoundaries_Swapped(rb) == << <<rb[1], 0, rb[2]>>, <<rb[1], rb[3], 0>> >>

\* ele0_boundary and ele1_boundary of the single split
SingleBoundaries(rb) == << <<rb[1], 0, rb[3]>>, <<rb[1], rb[2], 0>> >>

\* RefineSingle that queues the parent for rotated_ele[2] both as a removal
\* and as an addition
RefineSingle_KeepsParent(eid, n, b, nv, ele1ID) ==
  LET j  == FirstSplit(nv)
      vertexID == nv[j+1]
      r  == Rotated(n, j)
      rb == Rotated(b, j)
  IN [set   |-> << [eid |-> eid,    n |-> <<r[1], r[2], vertexID>>,
                                    b |-> SingleBoundaries(rb)[1]],
                   [eid |-> ele1ID, n |-> <<r[1], vertexID, r[3]>>,
                                    b |-> SingleBoundaries(rb)[2]] >>,
      addNN |-> << <<vertexID, r[1]>>, <<r[1], vertexID>> >>,
      remNE |-> << <<r[3], eid>> >>,
      addNE |-> << <<r[1], ele1ID>>, <<vertexID, eid>>, <<vertexID, ele1ID>>,
                   <<r[3], eid>>, <<r[3], ele1ID>> >>]

\* refine_element, refine_cnt==1; ele1ID is the captured value of NElements
RefineSingle(eid, n, b, nv, ele1ID) ==
  LET j  == FirstSplit(nv)
      vertexID == nv[j+1]
      r  == Rotated(n, j)
      rb == Rotated(b, j)
  IN [set   |-> << [eid |-> eid,    n |-> <<r[1], r[2], vertexID>>,
                                    b |-> SingleBoundaries(rb)[1]],
                   [eid |-> ele1ID, n |-> <<r[1], vertexID, r[3]>>,
                                    b |-> SingleBoundaries(rb)[2]] >>,
      addNN |-> << <<vertexID, r[1]>>, <<r[1], vertexID>> >>,
      remNE |-> << <<r[3], eid>> >>,
      addNE |-> << <<r[1], ele1ID>>, <<vertexID, eid>>, <<vertexID, ele1ID>>,
                   <<r[3], ele1ID>> >>]

\* a plausible slip: the longer of the two diagonals is drawn
RefineDouble_LongerDiagonal(eid, n, b, nv, ele0ID) ==
  LET j  == FirstNotSplit(nv)
      vertexID == <<nv[((j+1) % 3) + 1], nv[((j+2) % 3) + 1]>>
      r  == Rotated(n, j)
      rb == Rotated(b, j)
      ldiag0 == calc_edge_length(r[2], vertexID[1])
      ldiag1 == calc_edge_length(r[3], vertexID[2])
      offset == IF ldiag0 < ldiag1 THEN 1 ELSE 0
      ele2ID == ele0ID + 1
      ele0 == <<r[1], vertexID[2], vertexID[1]>>
      ele1 == <<vertexID[offset+1], r[2], r[3]>>
      ele2 == <<vertexID[1], vertexID[2], r[offset+2]>>
      ele0_boundary == <<0, rb[2], rb[3]>>
      ele1_boundary == <<rb[1], IF offset = 0 THEN rb[2] ELSE 0,
                                IF offset = 0 THEN 0 ELSE rb[3]>>
      ele2_boundary == <<IF offset = 0 THEN rb[3] ELSE 0,
                         IF offset = 0 THEN 0 ELSE rb[2], 0>>
      other == vertexID[((offset+1) % 2) + 1]
  IN [set   |-> << [eid |-> eid,    n |-> ele1, b |-> ele1_boundary],
                   [eid |-> ele0ID, n |-> ele0, b |-> ele0_boundary],
                   [eid |-> ele2ID, n |-> ele2, b |-> ele2_boundary] >>,
      addNN |-> << <<vertexID[1], vertexID[2]>>, <<vertexID[2], vertexID[1]>>,
                   <<vertexID[offset+1], r[offset+2]>>,
                   <<r[offset+2], vertexID[offset+1]>> >>,
      remNE |-> << <<r[1], eid>> >>,
      addNE |-> << <<r[offset+2], ele2ID>>, <<r[1], ele0ID>>,
                   <<vertexID[offset+1], eid>>, <<vertexID[offset+1], ele0ID>>,
                   <<vertexID[offset+1], ele2ID>>,
                   <<other, ele0ID>>, <<other, ele2ID>> >>]

\* refine_element, refine_cnt==2; ele0ID is the captured value of NElements
RefineDouble(eid, n, b, nv, ele0ID) ==
  LET j  == FirstNotSplit(nv)
      vertexID == <<nv[((j+1) % 3) + 1], nv[((j+2) % 3) + 1]>>
      r  == Rotated(n, j)
      rb == Rotated(b, j)
      ldiag0 == calc_edge_length(r[2], vertexID[1])
      ldiag1 == calc_edge_length(r[3], vertexID[2])
      offset == IF ldiag0 < ldiag1 THEN 0 ELSE 1
      ele2ID == ele0ID + 1
      ele0 == <<r[1], vertexID[2], vertexID[1]>>
      ele1 == <<vertexID[offset+1], r[2], r[3]>>
      ele2 == <<vertexID[1], vertexID[2], r[offset+2]>>
      ele0_boundary == <<0, rb[2], rb[3]>>
      ele1_boundary == <<rb[1], IF offset = 0 THEN rb[2] ELSE 0,
                                IF offset = 0 THEN 0 ELSE rb[3]>>
      ele2_boundary == <<IF offset = 0 THEN rb[3] ELSE 0,
                         IF offset = 0 THEN 0 ELSE rb[2], 0>>
      other == vertexID[((offset+1) % 2) + 1]
  IN [set   |-> << [eid |-> eid,    n |-> ele1, b |-> ele1_boundary],
                   [eid |-> ele0ID, n |-> ele0, b |-> ele0_boundary],
                   [eid |-> ele2ID, n |-> ele2, b |-> ele2_boundary] >>,
      addNN |-> << <<vertexID[1], vertexID[2]>>, <<vertexID[2], vertexID[1]>>,
                   <<vertexID[offset+1], r[offset+2]>>,
                   <<r[offset+2], vertexID[offset+1]>> >>,
      remNE |-> << <<r[1], eid>> >>,
      addNE |-> << <<r[offset+2], ele2ID>>, <<r[1], ele0ID>>,
                   <<vertexID[offset+1], eid>>, <<vertexID[offset+1], ele0ID>>,
                   <<vertexID[offset+1], ele2ID>>,
                   <<other, ele0ID>>, <<other, ele2ID>> >>]

\* refine_element, refine_cnt==3; ele1ID is the captured value of NElements
RefineTriple(eid, n, b, newVertex, ele1ID) ==
  LET ele2ID == ele1ID + 1
      ele3ID == ele1ID + 2
  IN [set   |-> << [eid |-> eid,    n |-> <<n[1], newVertex[3], newVertex[2]>>,
                                    b |-> <<0, b[2], b[3]>>],
                   [eid |-> ele1ID, n |-> <<n[2], newVertex[1], newVertex[3]>>,
                                    b |-> <<0, b[3], b[1]>>],
                   [eid |-> ele2ID, n |-> <<n[3], newVertex[2], newVertex[1]>>,
                                    b |-> <<0, b[1], b[2]>>],
                   [eid |-> ele3ID, n |-> <<newVertex[1], newVertex[2], newVertex[3]>>,
                                    b |-> <<0, 0, 0>>] >>,
      addNN |-> << <<newVertex[1], newVertex[2]>>, <<newVertex[1], newVertex[3]>>,
                   <<newVertex[2], newVertex[1]>>, <<newVertex[2], newVertex[3]>>,
                   <<newVertex[3], newVertex[1]>>, <<newVertex[3], newVertex[2]>> >>,
      remNE |-> << <<n[2], eid>>, <<n[3], eid>> >>,
      addNE |-> << <<n[2], ele1ID>>, <<n[3], ele2ID>>,
                   <<newVertex[1], ele1ID>>, <<newVertex[1], ele2ID>>, <<newVertex[1], ele3ID>>,
                   <<newVertex[2], eid>>, <<newVertex[2], ele2ID>>, <<newVertex[2], ele3ID>>,
                   <<newVertex[3], eid>>, <<newVertex[3], ele1ID>>, <<newVertex[3], ele3ID>> >>]

\* the newVertex[3] of element eid and its refine_cnt
NewVertexOf(eid) == <<new_vertices_per_element[3*eid], new_vertices_per_element[3*eid+1],
                      new_vertices_per_element[3*eid+2]>>

RefineCnt(nv) == Cardinality({j \in 1..3 : nv[j] # -1})

refine_element(eid, base) ==
  LET nv == NewVertexOf(eid) IN
  IF RefineCnt(nv) = 1 THEN RefineSingle(eid, ENList[eid], boundary[eid], nv, base)
  ELSE IF RefineCnt(nv) = 2 THEN RefineDouble(eid, ENList[eid], boundary[eid], nv, base)
  ELSE RefineTriple(eid, ENList[eid], boundary[eid], nv, base)

\* Mesh::deferred_operations of one thread with nothing queued
NoDeferred == [addNN |-> <<>>, remNE |-> <<>>, addNE |-> <<>>]

\* the entries of a queue that target a vertex of bucket vtid
OfBucket(q, vtid) == SelectSeq(q, LAMBDA op : hash(op[1]) = vtid)

RECURSIVE CommitAddNN(_, _)
CommitAddNN(NN, q) ==
  IF q = <<>> THEN NN
  ELSE CommitAddNN([NN EXCEPT ![Head(q)[1]] = Append(@, Head(q)[2])], Tail(q))

\* ok is FALSE if the element to remove is not in the list (the assertion)
RECURSIVE CommitRemNE(_, _)
CommitRemNE(NE, q) ==
  IF q = <<>> THEN [NE |-> NE, ok |-> TRUE]
  ELSE IF Head(q)[2] \notin NE[Head(q)[1]] THEN [NE |-> NE, ok |-> FALSE]
       ELSE CommitRemNE([NE EXCEPT ![Head(q)[1]] = @ \ {Head(q)[2]}], Tail(q))

RECURSIVE CommitAddNE(_, _)
CommitAddNE(NE, q) ==
  IF q = <<>> THEN NE
  ELSE CommitAddNE([NE EXCEPT ![Head(q)[1]] = @ \cup {Head(q)[2]}], Tail(q))

\* Mesh::commit_deferred(vtid): the queues of the threads, in thread order;
\* of each thread the NNList additions, the NEList removals, the NEList
\* additions.  S is [NN, NE, ok]; t is the next thread.
RECURSIVE commit_deferred(_, _, _)
commit_deferred(S, vtid, t) ==
  IF t = nthreads THEN S
  ELSE LET rem == CommitRemNE(S.NE, OfBucket(deferred[t].remNE, vtid))
       IN commit_deferred(
            [NN |-> CommitAddNN(S.NN, OfBucket(deferred[t].addNN, vtid)),
             NE |-> CommitAddNE(rem.NE, OfBucket(deferred[t].addNE, vtid)),
             ok |-> S.ok /\ rem.ok],
            vtid, t + 1)

\* what is left in a queue after bucket vtid was committed
AfterCommit(d, vtid) ==
  [t \in Threads |->
     [addNN |-> SelectSeq(d[t].addNN, LAMBDA op : hash(op[1]) # vtid),
      remNE |-> SelectSeq(d[t].remNE, LAMBDA op : hash(op[1]) # vtid),
      addNE |-> SelectSeq(d[t].addNE, LAMBDA op : hash(op[1]) # vtid)]]

-----------------------------------------------------------------------------
(* Refine2D::refine, one process, two threads.  The input is the unit       *)
(* square cut along the diagonal (0,2); its four sides carry the boundary  *)
(* tags 1..4.                                                              *)

SquareElements == << <<0,1,2>>, <<0,2,3>> >>
SquareBoundary == << <<2,0,1>>, <<3,4,0>> >>
SquareCoords   == ZeroBased(<< <<0,0>>, <<1,0>>, <<1,1>>, <<0,1>> >>)

\* thresholds (unit 2*l^2 of the unscaled square with metrics 1 and 16)
RefineL_max == {4, 33}

\* the element-node list of the input with each element rotated by j
SquareENList(j)   == ZeroBased([e \in 1..2 |-> Rotated(SquareElements[e], j)])
SquareBoundaryOf(j) == ZeroBased([e \in 1..2 |-> Rotated(SquareBoundary[e], j)])

InitRefine ==
  /\ NNodes = 4
  /\ NElements = 2
  /\ \E j \in 0..2 : /\ ENList = SquareENList(j)
                     /\ boundary = SquareBoundaryOf(j)
                     /\ NNList = create_adjacency(SquareENList(j), 4).NN
                     /\ NEList = create_adjacency(SquareENList(j), 4).NE
  /\ coords = [v \in 0..3 |-> <<RefineScale * SquareCoords[v][1],
                                RefineScale * SquareCoords[v][2]>>]
  /\ metric \in {f \in [0..3 -> {RefineScale, 16 * RefineScale}] : f[3] = RefineScale}
  /\ lnn2gnn = [v \in 0..3 |-> v]
  /\ node_owner = [v \in 0..3 |-> 0]
  /\ recv_halo = {} /\ send_halo = {}
  /\ facets = {}
  /\ dynamic_vertex = <<>>
  /\ L_low = 0 /\ L_max = 0
  /\ cpc = "constructed"
  /\ ci = 0
  /\ phase_2 = FALSE
  /\ sweeps = 0
  /\ lastCollapse = NoCollapse
  /\ erased = {}
  /\ cthreads = nthreads
  /\ Phase1Idle
  /\ RefineIdle
  /\ SwapIdle

\* refine(L_max) up to the marking loop
refine ==
  /\ rpc \in {"constructed", "done"}
  /\ sweeps < MaxSweeps
  /\ NNodes <= MaxRefineNodes
  /\ \E l \in RefineL_max : L_max' = l * RefineScale * RefineScale * RefineScale
  /\ origNNodes' = NNodes
  /\ origNElements' = NElements
  /\ new_vertices_per_element' = [k \in 0..(3*NElements-1) |-> -1]
  /\ splitCnt' = [t \in Threads |-> 0]
  /\ newVertices' = [t \in Threads |-> <<>>]
  /\ threadIdx' = [t \in Threads |-> -1]
  /\ allNewVertices' = <<>>
  /\ deferred' = [t \in Threads |-> NoDeferred]
  /\ pre' = [EN |-> ENList, B |-> boundary, NN |-> NNList, NE |-> NEList,
             GNN |-> lnn2gnn]
  /\ childrenOf' = [e \in 0..(NElements-1) |-> {e}]
  /\ rpc' = "mark"
  /\ ri' = 0
  /\ sweeps' = sweeps + 1
  /\ UNCHANGED <<meshVars, coarsenVars, swapVars>>

\* one iteration of the marking loop, run by thread tid
RefineMark ==
  /\ rpc = "mark"
  /\ ri < origNNodes
  /\ \E tid \in Threads :
        LET found == MarkEdges(ri, Len(NNList[ri])) IN
        /\ splitCnt' = [splitCnt EXCEPT ![tid] = @ + Len(found)]
        /\ newVertices' = [newVertices EXCEPT ![tid] = @ \o found]
  /\ ri' = ri + 1
  /\ UNCHANGED <<meshVars, coarsenVars, swapVars, L_max, sweeps, rpc, origNNodes, origNElements,
                 new_vertices_per_element, threadIdx, allNewVertices, deferred,
                 pre, childrenOf>>

\* a plausible slip: the capture takes the counter after the addition
\* ({x += n; v = x;} in place of {v = x; x += n;})
pragmatic_omp_atomic_capture_After(counter, n) ==
  [captured |-> counter + n, counter |-> counter + n]

\* pragmatic_omp_atomic_capture(&counter, n): one atomic fetch-and-add,
\* the value captured is the counter before the addition
pragmatic_omp_atomic_capture(counter, n) ==
  [captured |-> counter, counter |-> counter + n]

\* threadIdx[tid] = pragmatic_omp_atomic_capture(&_mesh->NNodes, splitCnt[tid])
RefineCapture ==
  /\ rpc = "mark"
  /\ ri = origNNodes
  /\ \E tid \in Threads :
        /\ threadIdx[tid] = -1
        /\ threadIdx' = [threadIdx EXCEPT ![tid] =
                           pragmatic_omp_atomic_capture(NNodes, splitCnt[tid]).captured]
        /\ NNodes' = pragmatic_omp_atomic_capture(NNodes, splitCnt[tid]).counter
  /\ UNCHANGED <<NElements, ENList, boundary, NNList, NEList, coords, metric, lnn2gnn,
                 node_owner, recv_halo, send_halo, facets, coarsenVars, swapVars, L_max, sweeps,
                 rpc, ri, origNNodes, origNElements, new_vertices_per_element,
                 newVertices, splitCnt, allNewVertices, deferred, pre, childrenOf>>

\* after the barrier: the resize, the copy of the coordinates and metrics,
\* the ids of the new vertices and their accumulation in allNewVertices
RefineAppend ==
  /\ rpc = "mark"
  /\ ri = origNNodes
  /\ \A tid \in Threads : threadIdx[tid] # -1
  /\ coords' = [v \in 0..(NNodes-1) |->
                  IF v < origNNodes THEN coords[v] ELSE NewVertexAt(v).x]
  /\ metric' = [v \in 0..(NNodes-1) |->
                  IF v < origNNodes THEN metric[v] ELSE NewVertexAt(v).m]
  /\ NNList' = [v \in 0..(NNodes-1) |-> IF v < origNNodes THEN NNList[v] ELSE <<>>]
  /\ NEList' = [v \in 0..(NNodes-1) |-> IF v < origNNodes THEN NEList[v] ELSE {}]
  /\ node_owner' = [v \in 0..(NNodes-1) |-> IF v < origNNodes THEN node_owner[v] ELSE 0]
  /\ lnn2gnn' = [v \in 0..(NNodes-1) |-> IF v < origNNodes THEN lnn2gnn[v] ELSE 0]
  /\ allNewVertices' = [k \in 1..(NNodes-origNNodes) |->
                          [id |-> origNNodes + k - 1,
                           first  |-> NewVertexAt(origNNodes + k - 1).first,
                           second |-> NewVertexAt(origNNodes + k - 1).second]]
  /\ rpc' = "newvertices"
  /\ ri' = 0
  /\ UNCHANGED <<NNodes, NElements, ENList, boundary, recv_halo, send_halo, facets,
                 coarsenVars, swapVars, L_max, sweeps, origNNodes, origNElements,
                 new_vertices_per_element, newVertices, splitCnt, threadIdx, deferred,
                 pre, childrenOf>>

\* a plausible slip: no element learns of its new vertex
MarkElements_None(vid, firstid, secondid) == new_vertices_per_element

\* new_vertices_per_element after the new vertex vid of edge (firstid,
\* secondid) was written for the elements sharing the edge
MarkElements(vid, firstid, secondid) ==
  LET intersection == NEList[firstid] \cap NEList[secondid]
  IN [k \in DOMAIN new_vertices_per_element |->
        IF \E eid \in intersection : k = 3*eid + edgeNumber(eid, firstid, secondid)
        THEN vid ELSE new_vertices_per_element[k]]

\* a plausible slip: the new vertex is added and the old neighbour stays
ReplaceInNNList_Append(list, old, vid) == Append(list, vid)

\* *std::find(NNList[v], old) = vid
ReplaceInNNList(list, old, vid) == [list EXCEPT ![IndexOf(list, old)] = vid]

\* one iteration of the loop over the new vertices; a failed assertion
\* ends the program
RefineNewVertex ==
  /\ rpc = "newvertices"
  /\ ri < NNodes - origNNodes
  /\ LET vid      == allNewVertices[ri+1].id
         firstid  == allNewVertices[ri+1].first
         secondid == allNewVertices[ri+1].second
     IN IF IndexOf(NNList[firstid], secondid) = 0 \/ IndexOf(NNList[secondid], firstid) = 0
        THEN /\ rpc' = "abort"
             /\ UNCHANGED <<new_vertices_per_element, NNList, node_owner, lnn2gnn, ri>>
        ELSE /\ new_vertices_per_element' = MarkElements(vid, firstid, secondid)
             /\ NNList' = [NNList EXCEPT
                             ![vid] = Append(Append(@, firstid), secondid),
                             ![firstid] = ReplaceInNNList(@, secondid, vid),
                             ![secondid] = ReplaceInNNList(@, firstid, vid)]
             /\ node_owner' = [node_owner EXCEPT ![vid] = 0]
             /\ lnn2gnn' = [lnn2gnn EXCEPT ![vid] = vid]
             /\ ri' = ri + 1
             /\ rpc' = rpc
  /\ UNCHANGED <<NNodes, NElements, ENList, boundary, NEList, coords, metric, recv_halo,
                 send_halo, facets, coarsenVars, swapVars, L_max, sweeps, origNNodes, origNElements,
                 newVertices, splitCnt, threadIdx, allNewVertices, deferred, pre, childrenOf>>

\* the barrier that ends the loop over the new vertices
RefineStartElements ==
  /\ rpc = "newvertices"
  /\ ri = NNodes - origNNodes
  /\ rpc' = "elements"
  /\ ri' = 0
  /\ UNCHANGED <<meshVars, coarsenVars, swapVars, L_max, sweeps, origNNodes, origNElements,
                 new_vertices_per_element, newVertices, splitCnt, threadIdx,
                 allNewVertices, deferred, pre, childrenOf>>

\* one iteration of the element loop that leaves the element alone
RefineElementSkip ==
  /\ rpc = "elements"
  /\ ri < origNElements
  /\ ENList[ri][1] < 0 \/ RefineCnt(NewVertexOf(ri)) = 0
  /\ ri' = ri + 1
  /\ UNCHANGED <<meshVars, coarsenVars, swapVars, L_max, sweeps, rpc, origNNodes, origNElements,
                 new_vertices_per_element, newVertices, splitCnt, threadIdx,
                 allNewVertices, deferred, pre, childrenOf>>

\* one iteration of the element loop, run by thread tid, that calls
\* refine_element: the capture of NElements, the deferred operations and
\* the calls of set_element
RefineElementSplit ==
  /\ rpc = "elements"
  /\ ri < origNElements
  /\ ENList[ri][1] >= 0
  /\ RefineCnt(NewVertexOf(ri)) > 0
  /\ LET cnt == RefineCnt(NewVertexOf(ri))
         R   == refine_element(ri, pragmatic_omp_atomic_capture(NElements, cnt).captured)
         new == [e \in 0..(NElements+cnt-1) |->
                   IF \E k \in DOMAIN R.set : R.set[k].eid = e
                   THEN CHOOSE k \in DOMAIN R.set : R.set[k].eid = e
                   ELSE 0]
     IN /\ NElements' = pragmatic_omp_atomic_capture(NElements, cnt).counter
        /\ ENList' = [e \in 0..(NElements+cnt-1) |->
                        IF new[e] # 0 THEN R.set[new[e]].n ELSE ENList[e]]
        /\ boundary' = [e \in 0..(NElements+cnt-1) |->
                        IF new[e] # 0 THEN R.set[new[e]].b ELSE boundary[e]]
        /\ \E tid \in Threads :
              deferred' = [deferred EXCEPT ![tid] =
                             [addNN |-> @.addNN \o R.addNN,
                              remNE |-> @.remNE \o R.remNE,
                              addNE |-> @.addNE \o R.addNE]]
        /\ childrenOf' = [childrenOf EXCEPT ![ri] = {ri} \cup (NElements..(NElements+cnt-1))]
  /\ ri' = ri + 1
  /\ UNCHANGED <<NNodes, NNList, NEList, coords, metric, lnn2gnn, node_owner, recv_halo,
                 send_halo, facets, coarsenVars, swapVars, L_max, sweeps, rpc, origNNodes,
                 origNElements, new_vertices_per_element, newVertices, splitCnt,
                 threadIdx, allNewVertices, pre>>

\* the barrier that ends the element loop
RefineStartCommit ==
  /\ rpc = "elements"
  /\ ri = origNElements
  /\ rpc' = "commit"
  /\ ri' = 0
  /\ UNCHANGED <<meshVars, coarsenVars, swapVars, L_max, sweeps, origNNodes, origNElements,
                 new_vertices_per_element, newVertices, splitCnt, threadIdx,
                 allNewVertices, deferred, pre, childrenOf>>

\* one iteration of the commit loop: _mesh->commit_deferred(vtid)
RefineCommit ==
  /\ rpc = "commit"
  /\ ri < NBuckets
  /\ LET S == commit_deferred([NN |-> NNList, NE |-> NEList, ok |-> TRUE], ri, 0)
     IN /\ NNList' = S.NN
        /\ NEList' = S.NE
        /\ rpc' = IF S.ok THEN rpc ELSE "abort"
  /\ deferred' = AfterCommit(deferred, ri)
  /\ ri' = ri + 1
  /\ UNCHANGED <<NNodes, NElements, ENList, boundary, coords, metric, lnn2gnn, node_owner,
                 recv_halo, send_halo, facets, coarsenVars, swapVars, L_max, sweeps, origNNodes,
                 origNElements, new_vertices_per_element, newVertices, splitCnt,
                 threadIdx, allNewVertices, pre, childrenOf>>

\* the check of the debug build, "inverted element in refinement"
InvertedElement == \E i \in 0..(NElements-1) : ENList[i][1] >= 0 /\ ElementArea(ENList[i]) <= 0

\* the end of refine(): exit(-1) if the check finds an inverted element
RefineReturn ==
  /\ rpc = "commit"
  /\ ri = NBuckets
  /\ rpc' = IF InvertedElement THEN "exit" ELSE "done"
  /\ UNCHANGED <<meshVars, coarsenVars, swapVars, L_max, sweeps, ri, origNNodes, origNElements,
                 new_vertices_per_element, newVertices, splitCnt, threadIdx,
                 allNewVertices, deferred, pre, childrenOf>>

NextRefine ==
  \/ refine \/ RefineMark \/ RefineCapture \/ RefineAppend \/ RefineNewVertex
  \/ RefineStartElements \/ RefineElementSkip \/ RefineElementSplit
  \/ RefineStartCommit \/ RefineCommit \/ RefineReturn

SpecRefine == InitRefine /\ [][NextRefine]_vars

-----------------------------------------------------------------------------
(* Claims on Refine2D *)

\* the adjacency lists are exactly those induced by the alive elements
NEListExact == \A v \in 0..(NNodes-1) : NEList[v] = ElementsOf(ENList, v)

NNListExact == \A v \in 0..(NNodes-1) : Range(NNList[v]) = NeighboursOf(ENList, v)

NNListSymmetric ==
  \A v \in 0..(NNodes-1) : \A k \in DOMAIN NNList[v] :
     v \in Range(NNList[NNList[v][k]])

\* C2: when refine() has returned, after one sweep or several, every alive
\* element is in the NEList of its three vertices, NEList[v] holds only
\* alive elements that contain v, NNList is symmetric, NNList[v] holds
\* exactly the vertices that share an alive element with v, and holds none
\* of them twice; no assertion of the sweep failed.
C2_RefineKeepsAdjacency ==
  /\ rpc # "abort"
  /\ rpc = "done" =>
       /\ ElementsInNEList
       /\ NEListExact
       /\ NNListSymmetric
       /\ NNListExact
       /\ NNListNoDuplicates

\* C2 witness: a second sweep has split elements made by the first
C2_Witness ==
  /\ rpc = "done"
  /\ sweeps = 2
  /\ origNElements > 2
  /\ NElements > origNElements
  /\ \E e \in 0..(origNElements-1) : RefineCnt(NewVertexOf(e)) = 2

\* the edges of the mesh refine() was entered with, and those longer than L_max
EdgesOf(EN) ==
  UNION {{{EN[e][j], EN[e][k]} : j, k \in 1..3} : e \in {i \in DOMAIN EN : EN[i][1] >= 0}}
     \ {{v} : v \in 0..(NNodes-1)}

EdgeLength(edge) ==
  LET a == CHOOSE v \in edge : TRUE
      b == CHOOSE v \in edge : v # a
  IN calc_edge_length(a, b)

LongEdges == {edge \in EdgesOf(pre.EN) : EdgeLength(edge) > L_max}

\* C6: once the new vertices of a sweep are numbered, and when refine()
\* has returned, every edge of the mesh
\* the sweep started from that is longer than L_max has exactly one new
\* vertex, recorded as one DirectedEdge from its smaller-gid end to its
\* larger-gid end, no other edge (none of length <= L_max) has one, and
\* the number of vertices added equals the number of such edges.
C6_OneVertexPerLongEdge ==
  rpc \in {"newvertices", "done"} =>
    /\ NNodes - origNNodes = Cardinality(LongEdges)
    /\ Len(allNewVertices) = Cardinality(LongEdges)
    /\ \A edge \in LongEdges :
          Cardinality({k \in DOMAIN allNewVertices :
             {allNewVertices[k].first, allNewVertices[k].second} = edge}) = 1
    /\ \A k \in DOMAIN allNewVertices :
          /\ {allNewVertices[k].first, allNewVertices[k].second} \in LongEdges
          /\ allNewVertices[k].first < origNNodes
          /\ allNewVertices[k].second < origNNodes
          /\ pre.GNN[allNewVertices[k].first] < pre.GNN[allNewVertices[k].second]
          /\ allNewVertices[k].id = origNNodes + k - 1

\* C6 witness: a sweep that splits some edges, leaves others, and meets an
\* edge whose length is exactly L_max
C6_Witness ==
  /\ rpc = "done"
  /\ Cardinality(LongEdges) >= 2
  /\ \E edge \in EdgesOf(pre.EN) : EdgeLength(edge) = L_max
  /\ \E edge \in EdgesOf(pre.EN) : EdgeLength(edge) < L_max

\* ---- geometry of a subdivision (twice the signed area, integer)

Abs(x) == IF x < 0 THEN -x ELSE x

Sign(x) == IF x < 0 THEN -1 ELSE IF x > 0 THEN 1 ELSE 0

\* x lies in the closed triangle with vertices p
InsideTriangle(p, x) ==
  \A j \in 1..3 :
     Sign(area(coords[p[j]], coords[p[(j % 3) + 1]], coords[x])) * Sign(ElementArea(p)) >= 0

\* some edge of t separates t from u: every vertex of u is on the far side
SeparatedBy(t, u) ==
  \E j \in 1..3 :
     LET a == coords[t[j]]
         b == coords[t[(j % 3) + 1]]
         c == coords[t[((j + 1) % 3) + 1]]
     IN \A k \in 1..3 : Sign(area(a, b, coords[u[k]])) * Sign(area(a, b, c)) <= 0

InteriorDisjoint(t, u) == SeparatedBy(t, u) \/ SeparatedBy(u, t)

RECURSIVE SumAbsArea(_)
SumAbsArea(S) ==
  IF S = {} THEN 0
  ELSE LET c == CHOOSE x \in S : TRUE
       IN Abs(ElementArea(ENList[c])) + SumAbsArea(S \ {c})

\* the edges of original element e that the sweep splits, and their new vertices
SplitEdgesOf(e) == {edge \in LongEdges : edge \subseteq Range(pre.EN[e])}

NewVerticesOn(e) ==
  {allNewVertices[k].id : k \in {i \in DOMAIN allNewVertices :
      {allNewVertices[i].first, allNewVertices[i].second} \subseteq Range(pre.EN[e])}}

OriginalElements == {e \in DOMAIN childrenOf : pre.EN[e][1] >= 0}

\* C7: when refine() has finished (it has returned, or its final check of
\* the elements has stopped the program), an original element with k
\* edges longer than L_max (k = 0..3) has been replaced by exactly k+1 alive
\* triangles, whose vertices are exactly its three vertices and the k new
\* vertices of its split edges, and which tile it: each has non-zero area
\* and lies in the parent, no two overlap, and the areas add up to the
\* parent's.  The children of different parents are different elements and
\* together they are all the alive elements.
C7_TemplateTilesParent ==
  rpc \in {"done", "exit"} =>
    /\ \A e \in OriginalElements :
         LET k  == Cardinality(SplitEdgesOf(e))
             ch == childrenOf[e]
         IN /\ Cardinality(ch) = k + 1
            /\ Cardinality(NewVerticesOn(e)) = k
            /\ \A c \in ch : c \in AliveElements
            /\ UNION {Range(ENList[c]) : c \in ch} = Range(pre.EN[e]) \cup NewVerticesOn(e)
            /\ \A c \in ch : ElementArea(ENList[c]) # 0
            /\ \A c \in ch : \A j \in 1..3 : InsideTriangle(pre.EN[e], ENList[c][j])
            /\ \A c, d \in ch : c # d => InteriorDisjoint(ENList[c], ENList[d])
            /\ SumAbsArea(ch) = Abs(ElementArea(pre.EN[e]))
    /\ \A e, f \in OriginalElements : e # f => childrenOf[e] \cap childrenOf[f] = {}
    /\ UNION {childrenOf[e] : e \in OriginalElements} = AliveElements

\* C7 witness: a second sweep has split one element made by the first in
\* three, another in four
C7_Witness ==
  /\ rpc = "done"
  /\ sweeps = 2
  /\ origNElements > 2
  /\ \E e \in OriginalElements : Cardinality(childrenOf[e]) = 3
  /\ \E e \in OriginalElements : Cardinality(childrenOf[e]) = 4

\* C8: refine() never inverts an element: at every point of a sweep each
\* element made from an original element has the orientation of that
\* element and a strictly positive area, as has every alive element, and
\* the orientation check of the debug build never ends the program.
C8_NoInversion ==
  /\ rpc # "exit"
  /\ \A e \in AliveElements : ElementArea(ENList[e]) > 0
  /\ rpc \in {"elements", "commit", "done"} =>
       \A e \in OriginalElements : \A c \in childrenOf[e] :
          Sign(ElementArea(ENList[c])) * Sign(ElementArea(pre.EN[e])) > 0

\* C8 witness: the first sweep made a 3-split next to a 2-split and has
\* passed the check
C8_Witness ==
  /\ rpc = "done"
  /\ sweeps = 1
  /\ \E e \in OriginalElements : Cardinality(childrenOf[e]) = 4
  /\ \E e \in OriginalElements : Cardinality(childrenOf[e]) = 3

\* the two vertices of facet k of an element (the facet opposite vertex k)
FacetOf(n, k) == {n[(k % 3) + 1], n[((k + 1) % 3) + 1]}

\* the vertices of f lie on the line of facet j of the original element e
OnParentFacet(f, e, j) ==
  LET a == CHOOSE v \in FacetOf(pre.EN[e], j) : TRUE
      b == CHOOSE v \in FacetOf(pre.EN[e], j) : v # a
  IN \A x \in f : area(coords[a], coords[b], coords[x]) = 0

\* C9: when refine() has returned, each facet of each element
\* made from an original element carries the tag of the parent facet it
\* lies on, and the tag 0 if it lies on none (a facet newly made inside
\* the parent); this for the 1-split, the 2-split with either diagonal and
\* the 3-split, and for the elements left alone.
C9_BoundaryTagsPropagate ==
  rpc = "done" =>
    \A e \in OriginalElements : \A c \in childrenOf[e] : \A k \in 1..3 :
       IF \E j \in 1..3 : OnParentFacet(FacetOf(ENList[c], k), e, j)
       THEN \A j \in 1..3 : OnParentFacet(FacetOf(ENList[c], k), e, j)
                               => boundary[c][k] = pre.B[e][j]
       ELSE boundary[c][k] = 0

\* the facet of original element e that a 2-split leaves whole, and the
\* old vertex the 2-split draws its diagonal from
UnsplitFacet(e) == CHOOSE j \in 1..3 : FacetOf(pre.EN[e], j) \notin LongEdges

DiagonalVertex(e) ==
  CHOOSE v \in Range(pre.EN[e]) \ {pre.EN[e][UnsplitFacet(e)]} :
     \E c \in childrenOf[e] :
        /\ v \in Range(ENList[c])
        /\ Cardinality(Range(ENList[c]) \cap NewVerticesOn(e)) = 2

\* original element e was split in three with offset 0, with offset 1
SplitWithOffset0(e) ==
  /\ Cardinality(childrenOf[e]) = 3
  /\ DiagonalVertex(e) = pre.EN[e][(UnsplitFacet(e) % 3) + 1]

SplitWithOffset1(e) ==
  /\ Cardinality(childrenOf[e]) = 3
  /\ DiagonalVertex(e) = pre.EN[e][((UnsplitFacet(e) + 1) % 3) + 1]

TaggedFacetSplit(e) ==
  \E j \in 1..3 : pre.B[e][j] # 0 /\ FacetOf(pre.EN[e], j) \in LongEdges

\* C9 witness: a sweep has made two 2-splits of elements with a tagged
\* facet split, one with each diagonal
C9_Witness ==
  /\ rpc = "done"
  /\ \E e, f \in OriginalElements :
        /\ SplitWithOffset0(e) /\ TaggedFacetSplit(e)
        /\ SplitWithOffset1(f) /\ TaggedFacetSplit(f)

EdgeCount(EN) == Cardinality(EdgesOf(EN))

\* C10 as stated: every call of refine(L_max) strictly increases the number
\* of edges
C10_Original ==
  rpc = "done" => EdgeCount(ENList) > EdgeCount(pre.EN)

\* C10 amended: a call of refine(L_max) never decreases the number of edges;
\* it increases it exactly when some edge is longer than L_max, and
\* otherwise leaves the elements and the vertices as they were.
C10_EdgesIncreaseIffLongEdge ==
  rpc = "done" =>
    /\ EdgeCount(ENList) >= EdgeCount(pre.EN)
    /\ (EdgeCount(ENList) > EdgeCount(pre.EN)) <=> (LongEdges # {})
    /\ LongEdges = {} => ENList = pre.EN /\ NNodes = origNNodes /\ NNList = pre.NN

\* C10 witness: refine() has returned from a call that found no edge longer
\* than L_max, after a call that found some
C10_Witness ==
  /\ rpc = "done"
  /\ sweeps = 2
  /\ LongEdges = {}
  /\ NNodes > 4


-----------------------------------------------------------------------------
(* Swapping (2D): the quality functional and the helpers of swap().  The    *)
(* positions held by the C++ locals (it, idx_in_n, ...) are 0-based; the    *)
(* entry at position k of a vector s is s[k+1].                             *)

\* std::numeric_limits<index_t>::max(), returned by originalNeighborIndex
\* when the target is not an original neighbour
index_max == 2147483647

\* ElementProperty::lipnikov for a triangle.  The value is carried as the
\* pair <<a, s>> of twice the area and the sum of the squared edge lengths,
\* which is the functional up to a positive constant; under the isotropic
\* metric the factor of the metric is common to a and s.  The pair is
\* positive for a counter-clockwise triangle and <= 0 for an inverted one.
lipnikov(x0, x1, x2, m0, m1, m2) ==
  LET d2(a, b) == (a[1]-b[1])*(a[1]-b[1]) + (a[2]-b[2])*(a[2]-b[2])
  IN <<(m0 + m1 + m2) * area(x0, x1, x2),
       (m0 + m1 + m2) * (d2(x0, x1) + d2(x1, x2) + d2(x2, x0))>>

\* a < b for two qualities
QLess(a, b) == a[1] * b[2] < b[1] * a[2]

\* std::min(a, b)
QMin(a, b) == IF QLess(b, a) THEN b ELSE a

\* the quality of the triangle with vertices n
TriangleQuality(n) ==
  lipnikov(coords[n[1]], coords[n[2]], coords[n[3]],
           metric[n[1]], metric[n[2]], metric[n[3]])

\* swap: the quality cache of an element, 0 for an erased one
CachedQuality(EN, e) == IF EN[e][1] < 0 THEN <<0, 1>> ELSE TriangleQuality(EN[e])

\* std::vector::resize(size, value)
Resize(s, size, value) ==
  [k \in 1..size |-> IF k <= Len(s) THEN s[k] ELSE value]

FirstHalf(s) == SubSeq(s, 1, Len(s) \div 2)

\* Swapping::originalNeighborIndex(source, target) on the lists NN with the
\* original degrees deg
originalNeighborIndex(NN, deg, source, target) ==
  IF \E pos \in 0..(deg[source]-1) : NN[source][pos+1] = target
  THEN CHOOSE pos \in 0..(deg[source]-1) :
         /\ NN[source][pos+1] = target
         /\ \A p \in 0..(pos-1) : NN[source][p+1] # target
  ELSE index_max

\* a plausible slip: the single element of a boundary edge is taken twice
neigh_elements_Twice(NE, i, opposite) ==
  LET a == FirstHalf(NE[i])
      b == FirstHalf(NE[opposite])
      common == {k \in DOMAIN a : a[k] # -1 /\ \E l \in DOMAIN b : b[l] = a[k]}
      s == [k \in 1..Cardinality(common) |->
              a[CHOOSE c \in common : Cardinality({d \in common : d < c}) = k - 1]]
  IN IF Len(s) = 1 THEN s \o s ELSE s

\* the elements pushed to neigh_elements: those found in the first halves
\* of both NEList[i] and NEList[opposite], in the order of NEList[i]
neigh_elements(NE, i, opposite) ==
  LET a == FirstHalf(NE[i])
      b == FirstHalf(NE[opposite])
      times(x) == Cardinality({l \in DOMAIN b : b[l] = x})
      f[k \in 0..Len(a)] ==
        IF k = 0 THEN <<>>
        ELSE f[k-1] \o (IF a[k] # -1 THEN [j \in 1..times(a[k]) |-> a[k]] ELSE <<>>)
  IN f[Len(a)]

\* n_off (m_off): the first local vertex of n that is neither i nor
\* opposite, -1 if there is none
LateralOffset(n, i, opposite) ==
  IF \E k \in 0..2 : n[k+1] # i /\ n[k+1] # opposite
  THEN CHOOSE k \in 0..2 : /\ n[k+1] # i /\ n[k+1] # opposite
                           /\ \A j \in 0..(k-1) : n[j+1] = i \/ n[j+1] = opposite
  ELSE -1

\* the test of a stale view of the two elements
StaleView(n, m, n_off, m_off) ==
  \/ n_off < 0
  \/ m_off < 0
  \/ n[((n_off+2) % 3) + 1] # m[((m_off+1) % 3) + 1]
  \/ n[((n_off+1) % 3) + 1] # m[((m_off+2) % 3) + 1]

\* a plausible slip: a marked lateral edge does not stop the flip
LateralMarked_Never(marks, v, idx) == FALSE

\* a plausible slip: a lateral edge always counts as marked
LateralMarked_Always(marks, v, idx) == TRUE

\* marked_edges[v][idx] == 1
LateralMarked(marks, v, idx) == marks[v][idx+1] = 1

\* "Are lateral edges marked for processing?" for one lateral vertex: the
\* block under if(i > lateral).  idx_in, min_opp and idx_opp stay -1 when
\* the block is not entered; ok is FALSE where the code continues.
CheckMarks(NN, deg, marks, i, opposite, lateral) ==
  IF i > lateral
  THEN LET idx_in  == originalNeighborIndex(NN, deg, lateral, i)
           min_opp == Min2(opposite, lateral)
           max_opp == IF opposite < lateral THEN lateral ELSE opposite
           idx_opp == originalNeighborIndex(NN, deg, min_opp, max_opp)
       IN IF idx_in >= deg[lateral] THEN [ok |-> FALSE]
          ELSE IF LateralMarked(marks, lateral, idx_in) THEN [ok |-> FALSE]
          ELSE IF idx_opp >= deg[min_opp] THEN [ok |-> FALSE]
          ELSE IF LateralMarked(marks, min_opp, idx_opp) THEN [ok |-> FALSE]
          ELSE [ok |-> TRUE, idx_in |-> idx_in, idx_of |-> -1,
                min_opp |-> min_opp, idx_opp |-> idx_opp]
  ELSE [ok |-> TRUE, idx_in |-> -1, idx_of |-> -1, min_opp |-> -1, idx_opp |-> -1]

\* "Are lateral neighbours original ones?" for one lateral vertex, after
\* CheckMarks gave c
CheckOriginal(NN, deg, i, opposite, lateral, c) ==
  LET idx_of  == IF c.idx_in = -1 THEN originalNeighborIndex(NN, deg, i, lateral) ELSE -1
      min_opp == Min2(opposite, lateral)
      max_opp == IF opposite < lateral THEN lateral ELSE opposite
      idx_opp == IF c.idx_opp = -1 THEN originalNeighborIndex(NN, deg, min_opp, max_opp)
                 ELSE c.idx_opp
  IN IF c.idx_in = -1 /\ idx_of >= deg[i] THEN [ok |-> FALSE]
     ELSE IF c.idx_opp = -1 /\ idx_opp >= deg[min_opp] THEN [ok |-> FALSE]
     ELSE [ok |-> TRUE, idx_in |-> c.idx_in, idx_of |-> idx_of,
           min_opp |-> min_opp, idx_opp |-> idx_opp]

\* the decision block for one lateral vertex
CheckLateral(NN, deg, marks, i, opposite, lateral) ==
  LET c == CheckMarks(NN, deg, marks, i, opposite, lateral)
  IN IF c.ok THEN CheckOriginal(NN, deg, i, opposite, lateral, c) ELSE c

\* the new elements of a flip: n_swap (new eid0) and m_swap (new eid1)
n_swap(n, m, n_off, m_off) ==
  <<n[n_off+1], m[m_off+1], n[((n_off+2) % 3) + 1]>>

m_swap(n, m, n_off, m_off) ==
  <<n[n_off+1], n[((n_off+1) % 3) + 1], m[m_off+1]>>

\* a plausible slip: every flip is taken
Improves_Always(new_worst_q, worst_q) == TRUE

\* if(new_worst_q>worst_q)
Improves(new_worst_q, worst_q) == QLess(worst_q, new_worst_q)

\* a plausible slip: the second slot, one degree further, is never tried
AddInExtension_FirstOnly(NN, deg, lateral, idx_in, other) ==
  LET pos == deg[lateral] + idx_in
  IN IF idx_in = index_max \/ pos >= Len(NN[lateral]) \/ NN[lateral][pos+1] # -1
     THEN [ok |-> FALSE, NN |-> NN]
     ELSE [ok |-> TRUE, NN |-> [NN EXCEPT ![lateral][pos+1] = other]]

\* "Add lateral_m in lateral_n's list": other is written in the extended
\* region of NN[lateral], at the degree plus the position idx_in of i, or
\* one degree further if that slot is taken.  ok is FALSE where the
\* assertion fails or the slot is outside the list.
AddInExtension(NN, deg, lateral, idx_in, other) ==
  LET first == deg[lateral] + idx_in
      pos   == IF first < Len(NN[lateral]) /\ NN[lateral][first+1] # -1
               THEN first + deg[lateral] ELSE first
  IN IF idx_in = index_max \/ pos >= Len(NN[lateral]) \/ NN[lateral][pos+1] # -1
     THEN [ok |-> FALSE, NN |-> NN]
     ELSE [ok |-> TRUE, NN |-> [NN EXCEPT ![lateral][pos+1] = other]]

\* "Update NNList[i], NNList[opposite], NNList[lateral_n] and
\* NNList[lateral_m]".  c_n and c_m are the results of the decision block.
UpdateNNList(NN, deg, i, it, opposite, lateral_n, lateral_m, c_n, c_m) ==
  LET NN1 == [NN EXCEPT ![i][it+1] = -1]
      k   == originalNeighborIndex(NN1, deg, opposite, i)
      NN2 == IF k = index_max THEN NN1 ELSE [NN1 EXCEPT ![opposite][k+1] = -1]
      idx_in_n == IF c_n.idx_in = -1 THEN originalNeighborIndex(NN2, deg, lateral_n, i)
                  ELSE c_n.idx_in
      a   == AddInExtension(NN2, deg, lateral_n, idx_in_n, lateral_m)
      idx_in_m == IF c_m.idx_in = -1 THEN originalNeighborIndex(a.NN, deg, lateral_m, i)
                  ELSE c_m.idx_in
      b   == AddInExtension(a.NN, deg, lateral_m, idx_in_m, lateral_n)
  IN [ok |-> k # index_max /\ a.ok /\ b.ok, NN |-> b.NN,
      idx_in_n |-> idx_in_n, idx_in_m |-> idx_in_m]

\* "lateral - add": the element add is written in the second half of
\* NE[vertex], half a length after the place of the element key
AddElement(NE, vertex, key, add) ==
  LET halfSize == Len(NE[vertex]) \div 2
      p == IndexOf(FirstHalf(NE[vertex]), key)
  IN IF p = 0 \/ NE[vertex][p + halfSize] # -1
     THEN [ok |-> FALSE, NE |-> NE]
     ELSE [ok |-> TRUE, NE |-> [NE EXCEPT ![vertex][p + halfSize] = add]]

\* "i (or opposite) - remove": the element eid leaves the first half
RemoveElement(NE, vertex, eid) ==
  LET p == IndexOf(FirstHalf(NE[vertex]), eid)
  IN IF p = 0
     THEN [ok |-> FALSE, NE |-> NE]
     ELSE [ok |-> TRUE, NE |-> [NE EXCEPT ![vertex][p] = -1]]

\* "Update node-element list."
UpdateNEList(NE, ns, ms, eid0, eid1) ==
  LET a == AddElement(NE, ns[1], eid0, eid1)
      b == AddElement(a.NE, ns[2], eid1, eid0)
      c == RemoveElement(b.NE, ns[3], eid1)
      d == RemoveElement(c.NE, ms[2], eid0)
  IN [ok |-> a.ok /\ b.ok /\ c.ok /\ d.ok, NE |-> d.NE]

\* "Also update the edges that have to be rechecked."
Remark(marks, i, lateral_n, lateral_m, c_n, c_m, idx_in_n, idx_in_m) ==
  LET m1 == IF i < lateral_n THEN [marks EXCEPT ![i][c_n.idx_of + 1] = 1]
            ELSE [marks EXCEPT ![lateral_n][idx_in_n + 1] = 1]
      m2 == IF i < lateral_m THEN [m1 EXCEPT ![i][c_m.idx_of + 1] = 1]
            ELSE [m1 EXCEPT ![lateral_m][idx_in_m + 1] = 1]
      m3 == [m2 EXCEPT ![c_n.min_opp][c_n.idx_opp + 1] = 1]
  IN [m3 EXCEPT ![c_m.min_opp][c_m.idx_opp + 1] = 1]

\* the positions of a vector that hold an entry, and those that are free
Holes(list)   == {k \in 0..(Len(list)-1) : list[k+1] = -1}
Entries(list) == {k \in 0..(Len(list)-1) : list[k+1] # -1}

SetMax(S) == CHOOSE x \in S : \A y \in S : x >= y

\* "Compact NNList": the loop over forward and backward on NNList[i] with
\* the marks moved along.  ok is FALSE where an index leaves the vector.
RECURSIVE CompactNN(_, _, _, _, _)
CompactNN(list, marks, deg, forward, backward) ==
  IF forward < backward
  THEN LET hs == {k \in Holes(list) : k >= forward}
           es == {k \in Entries(list) : k <= backward}
       IN IF hs = {} \/ es = {}
          THEN [ok |-> FALSE, list |-> list, marks |-> marks, forward |-> forward]
          ELSE LET f == SetMin(hs)
                   b == SetMax(es)
               IN IF f < b
                  THEN CompactNN([list EXCEPT ![f+1] = list[b+1], ![b+1] = -1],
                                 IF b < deg THEN [marks EXCEPT ![f+1] = marks[b+1]]
                                 ELSE marks,
                                 deg, f + 1, b - 1)
                  ELSE [ok |-> TRUE, list |-> list, marks |-> marks, forward |-> f]
  ELSE [ok |-> TRUE, list |-> list, marks |-> marks, forward |-> forward]

\* "Compact NEList": the same loop on the local NEList[i]; the inner loops
\* stop when forward passes backward
RECURSIVE CompactNE(_, _, _)
CompactNE(list, forward, backward) ==
  IF forward < backward
  THEN LET hs == {k \in Holes(list) : k >= forward /\ k <= backward}
           f  == IF hs = {} THEN backward + 1 ELSE SetMin(hs)
           es == {k \in Entries(list) : k >= f /\ k <= backward}
           b  == IF f > backward
                 THEN (IF list[backward+1] = -1 THEN backward - 1 ELSE backward)
                 ELSE IF es = {} THEN f - 1 ELSE SetMax(es)
       IN IF f < b
          THEN CompactNE([list EXCEPT ![f+1] = list[b+1], ![b+1] = -1], f + 1, b - 1)
          ELSE [list |-> list, forward |-> f]
  ELSE [list |-> list, forward |-> forward]

\* what a read past the end of a vector may give: the sentinel, or
\* anything else (0 stands for every other value)
PastTheEnd == {-1, 0}

\* "if(list[forward] != -1) ++forward"; past is what the read gives when
\* forward is the size of the vector
AfterLast(list, forward, past) ==
  LET entry == IF forward >= Len(list) THEN past ELSE list[forward+1]
  IN IF entry # -1 THEN forward + 1 ELSE forward

-----------------------------------------------------------------------------
(* Swapping::swap in 2D, one process, two threads.  The input is a convex   *)
(* hexagon cut into four triangles by the zigzag of the diagonals (1,5),    *)
(* (1,4), (2,4) of its corners, each of which is longer than the other      *)
(* diagonal of its quadrilateral; the vertices are numbered in several      *)
(* ways and the last triangle may be the halo of the partition.            *)

\* the corners, counter-clockwise, and the triangles in terms of the corners
HexCoords   == ZeroBased(<< <<0,1>>, <<1,0>>, <<2,0>>, <<3,1>>, <<4,3>>, <<0,3>> >>)
HexElements == << <<0,1,5>>, <<1,4,5>>, <<1,2,4>>, <<2,3,4>> >>
HexBoundary == << <<0,6,1>>, <<5,0,0>>, <<0,0,2>>, <<4,0,3>> >>

\* the vertex numbers given to the corners 0..5
HexNumberings == { <<0,1,2,3,4,5>>, <<5,4,3,2,1,0>>, <<3,0,4,5,1,2>> }

HexENList(num) ==
  ZeroBased([e \in 1..4 |-> [k \in 1..3 |-> num[HexElements[e][k] + 1]]])

CornerOf(num, v) == CHOOSE c \in 0..5 : num[c+1] = v

\* the variables of the mesh swap() never writes
swapFixed == <<NNodes, NElements, boundary, coords, metric, lnn2gnn, node_owner,
               recv_halo, send_halo, facets>>

\* the edge {a, b} is marked: the mark of an edge is kept with its lesser
\* vertex, at the position of the greater one among the original neighbours
EdgeMarked(NN, deg, marks, a, b) ==
  LET lo  == IF a < b THEN a ELSE b
      hi  == IF a < b THEN b ELSE a
      idx == originalNeighborIndex(NN, deg, lo, hi)
  IN idx < deg[lo] /\ marks[lo][idx+1] = 1

\* history: the lateral edges of the edge (i, opposite) that are marked
MarkedLaterals(NN, deg, marks, i, opposite, lateral_n, lateral_m) ==
  {e \in {{i, lateral_n}, {i, lateral_m}, {opposite, lateral_n}, {opposite, lateral_m}} :
     \E a, b \in e : a < b /\ EdgeMarked(NN, deg, marks, a, b)}

\* the locals of a thread of the swapping loop; marked is history: the
\* lateral edges that were marked when the decision block was run
IdleThread ==
  [pc |-> "idle", i |-> -1, it |-> -1, opposite |-> -1, eid0 |-> -1, eid1 |-> -1,
   n |-> <<>>, m |-> <<>>, n_off |-> -1, m_off |-> -1, c_n |-> <<>>, c_m |-> <<>>,
   idx_in_n |-> -1, idx_in_m |-> -1, marked |-> {}]

\* a thread at the head of the loop over it for vertex i
AtEdge(i, it) == [IdleThread EXCEPT !.pc = "edge", !.i = i, !.it = it]

\* a plausible slip: the count stops after the first vertex
CountMarks_FirstVertex(marks) ==
  Cardinality({k \in DOMAIN marks[0] : marks[0][k] = 1})

CountMarks(marks) ==
  LET RECURSIVE sum(_)
      sum(v) == IF v < 0 THEN 0
                ELSE sum(v-1) + Cardinality({k \in DOMAIN marks[v] : marks[v][k] = 1})
  IN sum(NNodes - 1)

\* the least quality of the alive elements of EN
MinQuality(EN) ==
  LET Q == {TriangleQuality(EN[e]) : e \in {x \in DOMAIN EN : EN[x][1] >= 0}}
  IN CHOOSE q \in Q : \A r \in Q : ~QLess(r, q)

InitSwap ==
  /\ NNodes = 6
  /\ NElements = 4
  /\ \E num \in HexNumberings :
       /\ ENList = HexENList(num)
       /\ NNList = create_adjacency(HexENList(num), 6).NN
       /\ NEList = create_adjacency(HexENList(num), 6).NE
       /\ coords = [v \in 0..5 |-> HexCoords[CornerOf(num, v)]]
       /\ facets = {[n |-> {num[c+1], num[((c+1) % 6) + 1]}, plane |-> c+1] : c \in 0..5}
       /\ \/ /\ recv_halo = {} /\ send_halo = {}
             /\ node_owner = [v \in 0..5 |-> 0]
          \/ /\ recv_halo = {num[4]} /\ send_halo = {num[3], num[5]}
             /\ node_owner = [v \in 0..5 |-> IF v = num[4] THEN 1 ELSE 0]
  /\ boundary = ZeroBased(HexBoundary)
  /\ metric = [v \in 0..5 |-> 1]
  /\ lnn2gnn = [v \in 0..5 |-> v]
  /\ dynamic_vertex = <<>>
  /\ L_low = 0 /\ L_max = 0
  /\ cpc = "constructed"
  /\ ci = 0
  /\ phase_2 = FALSE
  /\ sweeps = 0
  /\ lastCollapse = NoCollapse
  /\ erased = {}
  /\ cthreads = nthreads
  /\ Phase1Idle
  /\ RefineIdle
  /\ SwapIdle

\* the values of Q_min a caller passes, in the units of lipnikov: one
\* between the qualities of the triangles of the input (1/20, 3/32, 1/8 and
\* 3/11) and one above them all
QMinValues == { <<1, 10>>, <<9, 10>> }

\* the pass counter is a history variable: it stops counting at MaxPasses
MaxPasses == 12

\* swap(Q_min) up to the while loop: the quality cache and the
\* initialisation of the marks, the degrees and the extended lists
\* (the only use of Q_min, the test of lines 196-199, is inside a comment, so
\* no step of the call depends on the value that was passed)
swap ==
  \E Q_min \in QMinValues :
    /\ spc \in {"constructed", "done"}
    /\ sweeps < MaxSweeps
    /\ quality' = [e \in 0..(NElements-1) |-> CachedQuality(ENList, e)]
    /\ originalVertexDegree' = [v \in 0..(NNodes-1) |-> Len(NNList[v])]
    /\ NNList' = [v \in 0..(NNodes-1) |-> Resize(NNList[v], 3 * Len(NNList[v]), -1)]
    /\ LET marks == [v \in 0..(NNodes-1) |->
                       [k \in 1..Len(NNList[v]) |-> IF v < NNList[v][k] THEN 1 ELSE 0]]
       IN /\ marked_edges' = marks
          /\ n_marked_edges' = CountMarks(marks)
          /\ swapPre' = [EN |-> ENList, NN |-> NNList, NE |-> NEList, marks |-> marks]
    /\ localNEList' = [v \in 0..(NNodes-1) |->
                         IF Len(NNList[v]) = 0 THEN <<>>
                         ELSE Resize(SortedSeq(NEList[v]), 2 * Len(NNList[v]), -1)]
    /\ passes' = 0
    /\ th' = [t \in Threads |-> IdleThread]
    /\ flips' = <<>>
    /\ spc' = "while"
    /\ si' = 0
    /\ sweeps' = sweeps + 1
    /\ UNCHANGED <<swapFixed, ENList, NEList, coarsenVars, refineVars, L_max, firstRun, partialEEList, s3>>

\* while(n_marked_edges > 0){ n_marked_edges = 0;
SwapBeginPass ==
  /\ spc = "while"
  /\ n_marked_edges > 0
  /\ n_marked_edges' = 0
  /\ passes' = IF passes < MaxPasses THEN passes + 1 ELSE passes
  /\ spc' = "flip"
  /\ si' = 0
  /\ UNCHANGED <<meshVars, coarsenVars, refineVars, L_max, sweeps, quality, marked_edges,
                 originalVertexDegree, localNEList, th, flips, swapPre, firstRun, partialEEList, s3>>

\* a thread takes the next vertex i of the dynamic loop; the marks of a
\* halo vertex are cleared
SwapTakeVertex ==
  /\ spc = "flip"
  /\ si < NNodes
  /\ \E t \in Threads :
       /\ th[t].pc = "idle"
       /\ IF is_halo_node(si)
          THEN /\ marked_edges' = [marked_edges EXCEPT
                                     ![si] = [k \in DOMAIN marked_edges[si] |-> 0]]
               /\ th' = th
          ELSE /\ marked_edges' = marked_edges
               /\ th' = [th EXCEPT ![t] = AtEdge(si, 0)]
  /\ si' = si + 1
  /\ UNCHANGED <<meshVars, coarsenVars, refineVars, L_max, sweeps, spc, quality,
                 n_marked_edges, originalVertexDegree, localNEList, flips, swapPre, passes, firstRun, partialEEList, s3>>

\* one iteration of the loop over it up to the two elements of the edge:
\* the end of the loop, an unmarked position, an edge to a halo vertex, an
\* edge without two elements, or an edge to look at
SwapNextEdge ==
  /\ spc = "flip"
  /\ \E t \in Threads :
       LET i  == th[t].i
           it == th[t].it
           opposite == NNList[i][it+1]
           ne == neigh_elements(localNEList, i, opposite)
       IN /\ th[t].pc = "edge"
          /\ IF it >= originalVertexDegree[i]
             THEN /\ th' = [th EXCEPT ![t] = IdleThread]
                  /\ UNCHANGED <<marked_edges, spc>>
             ELSE IF marked_edges[i][it+1] # 1
             THEN /\ th' = [th EXCEPT ![t] = AtEdge(i, it + 1)]
                  /\ UNCHANGED <<marked_edges, spc>>
             ELSE IF opposite < 0
             THEN /\ spc' = "abort"
                  /\ UNCHANGED <<marked_edges, th>>
             ELSE IF is_halo_node(opposite) \/ Len(ne) # 2
             THEN /\ marked_edges' = [marked_edges EXCEPT ![i][it+1] = 0]
                  /\ th' = [th EXCEPT ![t] = AtEdge(i, it + 1)]
                  /\ UNCHANGED spc
             ELSE /\ th' = [th EXCEPT ![t] = [AtEdge(i, it) EXCEPT
                                               !.pc = "read", !.opposite = opposite,
                                               !.eid0 = ne[1], !.eid1 = ne[2]]]
                  /\ UNCHANGED <<marked_edges, spc>>
  /\ UNCHANGED <<meshVars, coarsenVars, refineVars, L_max, sweeps, si, quality,
                 n_marked_edges, originalVertexDegree, localNEList, flips, swapPre, passes, firstRun, partialEEList, s3>>

\* the two elements are read and the view is tested; a stale view leaves
\* the edge marked
SwapReadElements ==
  /\ spc = "flip"
  /\ \E t \in Threads :
       LET l == th[t]
           n == ENList[l.eid0]
           m == ENList[l.eid1]
           n_off == LateralOffset(n, l.i, l.opposite)
           m_off == LateralOffset(m, l.i, l.opposite)
       IN /\ l.pc = "read"
          /\ th' = [th EXCEPT ![t] =
                      IF StaleView(n, m, n_off, m_off) THEN AtEdge(l.i, l.it + 1)
                      ELSE [l EXCEPT !.pc = "check", !.n = n, !.m = m,
                                     !.n_off = n_off, !.m_off = m_off]]
  /\ UNCHANGED <<meshVars, coarsenVars, refineVars, L_max, sweeps, spc, si, quality,
                 marked_edges, n_marked_edges, originalVertexDegree, localNEList,
                 flips, swapPre, passes, firstRun, partialEEList, s3>>

\* the decision algorithm: the marks of the lateral edges and the original
\* neighbours; a failed test leaves the edge marked
SwapCheckLaterals ==
  /\ spc = "flip"
  /\ \E t \in Threads :
       LET l == th[t]
           lateral_n == l.n[l.n_off + 1]
           lateral_m == l.m[l.m_off + 1]
           c_n == CheckLateral(NNList, originalVertexDegree, marked_edges,
                               l.i, l.opposite, lateral_n)
           c_m == CheckLateral(NNList, originalVertexDegree, marked_edges,
                               l.i, l.opposite, lateral_m)
       IN /\ l.pc = "check"
          /\ th' = [th EXCEPT ![t] =
                      IF c_n.ok /\ c_m.ok
                      THEN [l EXCEPT !.pc = "decide", !.c_n = c_n, !.c_m = c_m,
                                     !.marked = MarkedLaterals(NNList, originalVertexDegree,
                                                  marked_edges, l.i, l.opposite,
                                                  lateral_n, lateral_m)]
                      ELSE AtEdge(l.i, l.it + 1)]
  /\ UNCHANGED <<meshVars, coarsenVars, refineVars, L_max, sweeps, spc, si, quality,
                 marked_edges, n_marked_edges, originalVertexDegree, localNEList,
                 flips, swapPre, passes, firstRun, partialEEList, s3>>

\* the quality test; an accepted flip caches the new qualities and updates
\* the four neighbour lists, a rejected one unmarks the edge
SwapDecide ==
  /\ spc = "flip"
  /\ \E t \in Threads :
       LET l  == th[t]
           ns == n_swap(l.n, l.m, l.n_off, l.m_off)
           ms == m_swap(l.n, l.m, l.n_off, l.m_off)
           worst_q == QMin(quality[l.eid0], quality[l.eid1])
           q0 == TriangleQuality(ns)
           q1 == TriangleQuality(ms)
           new_worst_q == QMin(q0, q1)
           u  == UpdateNNList(NNList, originalVertexDegree, l.i, l.it, l.opposite,
                              ns[1], ns[2], l.c_n, l.c_m)
       IN /\ l.pc = "decide"
          /\ IF Improves(new_worst_q, worst_q)
             THEN /\ quality' = [quality EXCEPT ![l.eid0] = q0, ![l.eid1] = q1]
                  /\ NNList' = u.NN
                  /\ spc' = IF u.ok THEN spc ELSE "abort"
                  /\ th' = [th EXCEPT ![t] = [l EXCEPT !.pc = "elements",
                                                       !.idx_in_n = u.idx_in_n,
                                                       !.idx_in_m = u.idx_in_m]]
                  /\ UNCHANGED marked_edges
             ELSE /\ marked_edges' = [marked_edges EXCEPT ![l.i][l.it + 1] = 0]
                  /\ th' = [th EXCEPT ![t] = AtEdge(l.i, l.it + 1)]
                  /\ UNCHANGED <<quality, NNList, spc>>
  /\ UNCHANGED <<swapFixed, ENList, NEList, coarsenVars, refineVars, L_max, sweeps, si,
                 n_marked_edges, originalVertexDegree, localNEList, flips, swapPre, passes, firstRun, partialEEList, s3>>

\* the node-element lists and the two elements are rewritten
SwapCommitElements ==
  /\ spc = "flip"
  /\ \E t \in Threads :
       LET l  == th[t]
           ns == n_swap(l.n, l.m, l.n_off, l.m_off)
           ms == m_swap(l.n, l.m, l.n_off, l.m_off)
           u  == UpdateNEList(localNEList, ns, ms, l.eid0, l.eid1)
           EN == [ENList EXCEPT ![l.eid0] = ns, ![l.eid1] = ms]
       IN /\ l.pc = "elements"
          /\ localNEList' = u.NE
          /\ ENList' = EN
          /\ spc' = IF u.ok THEN spc ELSE "abort"
          /\ th' = [th EXCEPT ![t] = [l EXCEPT !.pc = "remark"]]
          /\ flips' = Append(flips,
                        [tid |-> t, i |-> l.i, opposite |-> l.opposite,
                         lateral_n |-> ns[1], lateral_m |-> ns[2],
                         eid0 |-> l.eid0, eid1 |-> l.eid1, n |-> l.n, m |-> l.m,
                         old0 |-> ENList[l.eid0], old1 |-> ENList[l.eid1],
                         new0 |-> ns, new1 |-> ms,
                         rivals |-> {r \in Threads \ {t} :
                                       /\ th[r].pc \in {"read", "check", "decide"}
                                       /\ {th[r].eid0, th[r].eid1}
                                            \cap {l.eid0, l.eid1} # {}},
                         min_before |-> MinQuality(ENList), min_after |-> MinQuality(EN)])
  /\ UNCHANGED <<swapFixed, NNList, NEList, coarsenVars, refineVars, L_max, sweeps, si,
                 quality, marked_edges, n_marked_edges, originalVertexDegree, swapPre, passes, firstRun, partialEEList, s3>>

\* the lateral edges are marked again and the flipped edge is unmarked
SwapRemark ==
  /\ spc = "flip"
  /\ \E t \in Threads :
       LET l == th[t]
           marks == Remark(marked_edges, l.i, l.n[l.n_off + 1], l.m[l.m_off + 1],
                           l.c_n, l.c_m, l.idx_in_n, l.idx_in_m)
       IN /\ l.pc = "remark"
          /\ marked_edges' = [marks EXCEPT ![l.i][l.it + 1] = 0]
          /\ th' = [th EXCEPT ![t] = AtEdge(l.i, l.it + 1)]
  /\ UNCHANGED <<meshVars, coarsenVars, refineVars, L_max, sweeps, spc, si, quality,
                 n_marked_edges, originalVertexDegree, localNEList, flips, swapPre, passes, firstRun, partialEEList, s3>>

\* after the loop: the marks are counted
SwapCount ==
  /\ spc = "flip"
  /\ si = NNodes
  /\ \A t \in Threads : th[t].pc = "idle"
  /\ n_marked_edges' = CountMarks(marked_edges)
  /\ spc' = "compact"
  /\ si' = 0
  /\ UNCHANGED <<meshVars, coarsenVars, refineVars, L_max, sweeps, quality, marked_edges,
                 originalVertexDegree, localNEList, th, flips, swapPre, passes, firstRun, partialEEList, s3>>

\* one iteration of the compaction loop: NNList[si], its marks and degree,
\* and the local NEList[si]
SwapCompact ==
  /\ spc = "compact"
  /\ si < NNodes
  /\ IF Len(NNList[si]) = 0
     THEN UNCHANGED <<NNList, marked_edges, originalVertexDegree, localNEList, spc>>
     ELSE \E past \in PastTheEnd :
          LET NNextend == IF n_marked_edges > 0 THEN 3 ELSE 1
              NEextend == IF n_marked_edges > 0 THEN 2 ELSE 1
              c  == CompactNN(NNList[si], marked_edges[si], originalVertexDegree[si],
                              0, Len(NNList[si]) - 1)
              forward == AfterLast(c.list, c.forward, past)
              d  == CompactNE(localNEList[si], 0, Len(localNEList[si]) - 1)
          IN /\ originalVertexDegree' = [originalVertexDegree EXCEPT ![si] = forward]
             /\ marked_edges' = [marked_edges EXCEPT ![si] = Resize(c.marks, forward, 0)]
             /\ NNList' = [NNList EXCEPT ![si] = Resize(c.list, NNextend * forward, -1)]
             /\ localNEList' = [localNEList EXCEPT
                                  ![si] = Resize(d.list,
                                                 NEextend * AfterLast(d.list, d.forward, past),
                                                 -1)]
             /\ spc' = IF c.ok THEN spc ELSE "abort"
  /\ si' = si + 1
  /\ UNCHANGED <<swapFixed, ENList, NEList, coarsenVars, refineVars, L_max, sweeps,
                 quality, n_marked_edges, th, flips, swapPre, passes, firstRun, partialEEList, s3>>

\* the end of a pass of the while loop
SwapEndPass ==
  /\ spc = "compact"
  /\ si = NNodes
  /\ spc' = "while"
  /\ UNCHANGED <<meshVars, coarsenVars, refineVars, L_max, sweeps, si, quality,
                 marked_edges, n_marked_edges, originalVertexDegree, localNEList, th,
                 flips, swapPre, passes, firstRun, partialEEList, s3>>

\* after the while loop: the local NEList is copied back to the mesh
SwapReturn ==
  /\ spc = "while"
  /\ n_marked_edges = 0
  /\ NEList' = [v \in 0..(NNodes-1) |->
                  IF NEList[v] = {} THEN {} ELSE Range(localNEList[v])]
  /\ spc' = "done"
  /\ UNCHANGED <<swapFixed, ENList, NNList, coarsenVars, refineVars, L_max, sweeps, si,
                 quality, marked_edges, n_marked_edges, originalVertexDegree,
                 localNEList, th, flips, swapPre, passes, firstRun, partialEEList, s3>>

NextSwap ==
  \/ swap \/ SwapBeginPass \/ SwapTakeVertex \/ SwapNextEdge \/ SwapReadElements
  \/ SwapCheckLaterals \/ SwapDecide \/ SwapCommitElements \/ SwapRemark
  \/ SwapCount \/ SwapCompact \/ SwapEndPass \/ SwapReturn

SpecSwap == InitSwap /\ [][NextSwap]_vars

-----------------------------------------------------------------------------
(* Claims on Swapping (2D) *)

Halo == {v \in 0..(NNodes-1) : is_halo_node(v)}

\* the elements a flip was computed from, as the thread read them
PreFlipPair(f) == {<<f.eid0, f.n>>, <<f.eid1, f.m>>}

\* no list of the local NEList holds a sentinel or an element twice
LocalNEListClean ==
  \A v \in 0..(NNodes-1) : NoDup(localNEList[v]) /\ -1 \notin Range(localNEList[v])

PairQuality(n, m) == QMin(TriangleQuality(n), TriangleQuality(m))

\* C4: each committed flip replaces two triangles by two triangles of a
\* strictly greater least quality, the replaced triangles being taken as
\* they are in the mesh when the flip is committed; the least quality of
\* the alive elements does not decrease at a flip and is never below its
\* value at the start of the sweep.
C4_FlipRaisesQuality ==
  /\ \A a \in DOMAIN flips :
       /\ QLess(PairQuality(flips[a].old0, flips[a].old1),
                PairQuality(flips[a].new0, flips[a].new1))
       /\ ~QLess(flips[a].min_after, flips[a].min_before)
  /\ spc # "constructed" => ~QLess(MinQuality(ENList), MinQuality(swapPre.EN))

\* several flips were committed, one by each thread, and the least quality
\* of the mesh is greater than at the start of the sweep
C4_Witness ==
  /\ spc = "done"
  /\ \E a, b \in DOMAIN flips : flips[a].tid # flips[b].tid
  /\ QLess(MinQuality(swapPre.EN), MinQuality(ENList))

\* C5: during a sweep the elements that a halo vertex had at the start
\* keep their vertices, the neighbours and the elements of a halo vertex
\* stay the same, and no flip is made of an edge with a halo end.
C5_HaloUntouched ==
  spc # "constructed" =>
    /\ \A v \in Halo :
         /\ \A e \in swapPre.NE[v] : ENList[e] = swapPre.EN[e]
         /\ Range(NNList[v]) \ {-1} = Range(swapPre.NN[v])
         /\ Range(localNEList[v]) \ {-1} = swapPre.NE[v]
    /\ \A a \in DOMAIN flips : flips[a].i \notin Halo /\ flips[a].opposite \notin Halo

\* the vertices whose NNList a thread has written for the edge it is
\* flipping: the two ends of the edge (the entries are set to -1) and the
\* two lateral vertices (an entry is written in the extension)
ListsWritten(t) ==
  IF th[t].pc \in {"elements", "remark"}
  THEN LET ns == n_swap(th[t].n, th[t].m, th[t].n_off, th[t].m_off)
       IN {th[t].i, th[t].opposite, ns[1], ns[2]}
  ELSE {}

\* C15: between two synchronisation points of the swap pass no two threads
\* write to the same adjacency list: two threads that are both in the
\* middle of a flip inside the parallel loop have written the NNList of
\* disjoint sets of vertices.
C15_OneWriterPerList ==
  spc = "flip" =>
     \A a, b \in Threads : a # b => ListsWritten(a) \cap ListsWritten(b) = {}

-----------------------------------------------------------------------------
(* The index ranges reserved by refine *)

\* the vertex ids thread t has reserved by its capture on NNodes
ReservedVertices(t) ==
  IF threadIdx[t] = -1 THEN {} ELSE threadIdx[t]..(threadIdx[t] + splitCnt[t] - 1)

\* the element ids reserved for the children of the original element e
ReservedElements(e) == childrenOf[e] \ {e}

Refining == rpc \in {"mark", "newvertices", "elements", "commit"}

\* C16: in refine the index ranges the threads reserve by the atomic
\* capture on NNodes are pairwise disjoint and together are exactly the
\* range from the old to the new number of vertices, in whatever order the
\* threads make their captures, and each new vertex has the id of its
\* place in the range of its thread; the ranges reserved on NElements by
\* refine_element are pairwise disjoint, are exactly the range from the
\* old to the new number of elements, and every element written has an id
\* below NElements.
C16_ReservedRangesPartition ==
  Refining =>
     /\ \A a, b \in Threads : a # b => ReservedVertices(a) \cap ReservedVertices(b) = {}
     /\ UNION {ReservedVertices(t) : t \in Threads} = origNNodes..(NNodes-1)
     /\ \A k \in DOMAIN allNewVertices :
           /\ allNewVertices[k].id = origNNodes + k - 1
           /\ \E t \in Threads : allNewVertices[k].id \in ReservedVertices(t)
     /\ \A d, e \in 0..(origNElements-1) :
           d # e => ReservedElements(d) \cap ReservedElements(e) = {}
     /\ UNION {ReservedElements(e) : e \in 0..(origNElements-1)}
           = origNElements..(NElements-1)
     /\ DOMAIN ENList = 0..(NElements-1)

\* C16 witness: both threads have reserved a non-empty range of vertices,
\* the thread with the larger id first, and two elements have reserved
\* ranges of elements
C16_Witness ==
  /\ rpc = "commit"
  /\ \A t \in Threads : ReservedVertices(t) # {}
  /\ threadIdx[1] < threadIdx[0]
  /\ Cardinality({e \in 0..(origNElements-1) : ReservedElements(e) # {}}) >= 2

-----------------------------------------------------------------------------
(* Termination of the swapping loop *)

\* the steps of a call of swap() whose enabling condition is not just a
\* guard on the position of a thread
SwapStep ==
  \/ SwapBeginPass \/ SwapTakeVertex \/ SwapNextEdge \/ SwapReadElements
  \/ SwapCheckLaterals \/ SwapRemark \/ SwapCount \/ SwapEndPass \/ SwapReturn

\* the states where SwapDecide, SwapCommitElements and SwapCompact can be
\* taken; each of them changes the state
DecideEnabled  == spc = "flip" /\ \E t \in Threads : th[t].pc = "decide"
CommitEnabled  == spc = "flip" /\ \E t \in Threads : th[t].pc = "elements"
CompactEnabled == spc = "compact" /\ si < NNodes

SpecSwapFair ==
  /\ InitSwap
  /\ [][NextSwap]_vars
  /\ WF_vars(SwapStep)
  /\ ([]<>(~DecideEnabled) \/ []<><<SwapDecide>>_vars)
  /\ ([]<>(~CommitEnabled) \/ []<><<SwapCommitElements>>_vars)
  /\ ([]<>(~CompactEnabled) \/ []<><<SwapCompact>>_vars)

SwapRunning == spc \in {"while", "flip", "compact"}

-----------------------------------------------------------------------------
(* The passes of the while loop of swap() *)

\* the values an iteration cap of a sweep could be set to, up to the
\* default
DefaultCap == 10
IterationCaps == 1..DefaultCap

\* no edge is marked
NoMarks == \A v \in DOMAIN marked_edges : \A k \in DOMAIN marked_edges[v] :
              marked_edges[v][k] = 0

-----------------------------------------------------------------------------
(* The threshold Q_min of swap() *)

\* C19: swap(Q_min) flips an edge only if one of its two triangles has a
\* quality below Q_min: whatever Q_min was passed, the lesser quality of
\* the two triangles replaced by a committed flip is below it.
C19_FlipsOnlyBelowQ_min ==
  \A q \in QMinValues : \A a \in DOMAIN flips :
     QLess(PairQuality(flips[a].old0, flips[a].old1), q)

-----------------------------------------------------------------------------
(* A second call of swap() *)

\* C20: on the mesh a completed call of swap() has produced, a second call
\* commits no flip: in every call after the first the history of flips
\* stays empty.
C20_SecondSweepCommitsNoFlip == sweeps >= 2 => flips = <<>>

-----------------------------------------------------------------------------
(* Two executions of swap() on the same input *)

\* a mesh up to the numbering of its elements: the vertex sets of the
\* alive elements (swap() never renumbers a vertex)
ElementSets(EN) ==
  {{EN[e][1], EN[e][2], EN[e][3]} : e \in {x \in DOMAIN EN : EN[x][1] >= 0}}

\* the caller keeps the result of a finished execution and hands the same
\* input mesh to a second execution
SwapSameInput ==
  /\ spc = "done"
  /\ firstRun = <<>>
  /\ firstRun' = ENList
  /\ ENList' = swapPre.EN
  /\ NNList' = swapPre.NN
  /\ NEList' = swapPre.NE
  /\ spc' = "constructed"
  /\ UNCHANGED <<swapFixed, coarsenVars, refineVars, L_max, sweeps, si, quality,
                 marked_edges, n_marked_edges, originalVertexDegree, localNEList,
                 th, flips, swapPre, passes, partialEEList, s3>>

\* swap() called on a Swapping object that has not run yet
SwapFresh == spc = "constructed" /\ swap

NextSwapTwice == SwapFresh \/ SwapSameInput \/ SwapStep \/ SwapDecide
                   \/ SwapCommitElements \/ SwapCompact

SpecSwapTwice == InitSwap /\ [][NextSwapTwice]_vars

\* C21: two executions of a swap sweep on the same input mesh, whatever the
\* schedule of the two threads in each, end in the same mesh up to the
\* numbering of the elements.
C21_SameFinalMesh ==
  (spc = "done" /\ firstRun # <<>>) => ElementSets(ENList) = ElementSets(firstRun)

-----------------------------------------------------------------------------
(* The marks of the lateral edges at the decision block *)

\* the threads that are committing a flip: past the quality test, before
\* the flipped edge is unmarked
Committing == {t \in Threads : spc = "flip" /\ th[t].pc \in {"elements", "remark"}}

\* the apexes of the edge thread t is flipping
Apexes(t) == {th[t].n[th[t].n_off + 1], th[t].m[th[t].m_off + 1]}

\* the claim as it was made: a flip is committed only if none of its four
\* lateral edges was marked when the decision block was run
C23_Original == \A t \in Committing : th[t].marked = {}

\* C23: a flip of the edge (i, j) is committed only if, when the decision
\* block was run, for each apex l with l < i the edges (l, i) and (l, j)
\* were unmarked; the lateral edges of an apex l > i are not tested.
C23_LowerApexEdgesUnmarked ==
  \A t \in Committing :
    \A l \in Apexes(t) :
      l < th[t].i =>
        /\ {l, th[t].i} \notin th[t].marked
        /\ {l, th[t].opposite} \notin th[t].marked

\* a flip is being committed of an edge with one apex below i and one
\* above, a lateral edge of the apex above i having been marked at the
\* decision block
C23_Witness ==
  \E t \in Committing :
    /\ \E l \in Apexes(t) : l < th[t].i
    /\ \E l \in Apexes(t) :
         /\ l > th[t].i
         /\ th[t].marked \cap {{l, th[t].i}, {l, th[t].opposite}} # {}

-----------------------------------------------------------------------------
(* The lateral edges marked again by a flip *)

\* the alive elements of EN that have both a and b
SharedElements(EN, a, b) ==
  {e \in DOMAIN EN : EN[e][1] >= 0 /\ {a, b} \subseteq {EN[e][1], EN[e][2], EN[e][3]}}

\* the edges marked again by the flips of this call
Remarked ==
  UNION {{{flips[a].i, flips[a].lateral_n}, {flips[a].i, flips[a].lateral_m},
          {flips[a].opposite, flips[a].lateral_n}, {flips[a].opposite, flips[a].lateral_m}}
           : a \in DOMAIN flips}

\* thread t is at a marked edge to a vertex outside the halo for which the
\* lookup in the first halves of the two NEList does not give two
\* elements: its next step clears the mark without a quality test
ClearsUntested(t) ==
  LET i  == th[t].i
      it == th[t].it
  IN /\ spc = "flip"
     /\ th[t].pc = "edge"
     /\ it < originalVertexDegree[i]
     /\ marked_edges[i][it+1] = 1
     /\ NNList[i][it+1] >= 0
     /\ ~is_halo_node(NNList[i][it+1])
     /\ Len(neigh_elements(localNEList, i, NNList[i][it+1])) # 2

\* C24: the mark of an edge that a committed flip has marked again is
\* cleared without a quality test only if the edge does not lie between two
\* elements: never while two alive elements share it.
C24_RemarkedEdgeIsTested ==
  \A t \in Threads :
     (ClearsUntested(t) /\ {th[t].i, NNList[th[t].i][th[t].it + 1]} \in Remarked)
        => Cardinality(SharedElements(ENList, th[t].i, NNList[th[t].i][th[t].it + 1])) # 2

-----------------------------------------------------------------------------
(* The values of dynamic_vertex *)

\* the vertices rm_vertex may be collapsed onto as far as the length of the
\* edge goes: the targets of short_edges
Candidates(M, rm_vertex) ==
  IF \/ M.NN[rm_vertex] = <<>>
     \/ is_corner_vertex(M.F, rm_vertex)
     \/ ~is_owned_node(rm_vertex)
  THEN {}
  ELSE {p[2] : p \in Range(ShortEdges(M, rm_vertex, Len(M.NN[rm_vertex])))}

\* the vertices whose entry of dynamic_vertex was computed by
\* coarsen_identify_kernel on the current mesh: all of them until the first
\* collapse, the target of the last collapse and its neighbours afterwards
Evaluated ==
  IF lastCollapse = NoCollapse THEN {v \in 0..(NNodes-1) : NNList[v] # <<>>}
  ELSE {v \in {lastCollapse.target_vertex} \cup Range(NNList[lastCollapse.target_vertex]) :
          is_owned_node(v)}

\* the claim as it was stated: every entry is a target or -1
C25_Original ==
  cpc \in {"phase2", "done"} => \A v \in DOMAIN dynamic_vertex : dynamic_vertex[v] >= -1

\* C25: every entry of dynamic_vertex is a vertex or -1 or -2.  An entry
\* computed by coarsen_identify_kernel is -1 exactly when the vertex has no
\* candidate edge, -2 exactly when it has candidates and each of them is
\* rejected by the area or the L_max test, and otherwise a candidate that is
\* not rejected.
C25_RejectedIsMinusTwo ==
  cpc \in {"phase2", "done"} =>
    /\ \A v \in DOMAIN dynamic_vertex : dynamic_vertex[v] \in (-2)..(NNodes-1)
    /\ \A v \in Evaluated :
         LET c == Candidates(CurrentMesh, v) IN
         /\ dynamic_vertex[v] = -1 <=> c = {}
         /\ dynamic_vertex[v] = -2 <=>
              (c # {} /\ \A t \in c : RejectCollapse(CurrentMesh, v, t))
         /\ dynamic_vertex[v] >= 0 =>
              (dynamic_vertex[v] \in c /\ ~RejectCollapse(CurrentMesh, v, dynamic_vertex[v]))

C25_Witness ==
  /\ cpc = "phase2"
  /\ \E v \in Evaluated :
       /\ dynamic_vertex[v] = -2
       /\ Candidates(CurrentMesh, v) # {}
       /\ \A t \in Candidates(CurrentMesh, v) : RejectCollapse(CurrentMesh, v, t)

-----------------------------------------------------------------------------
(* dynamic_vertex after a collapse *)

\* a collapse was made in the first call of coarsen(): until the next
\* collapse dynamic_vertex is what coarsen_kernel left
AfterCollapse ==
  /\ cpc \in {"phase2", "done"}
  /\ sweeps = 1
  /\ lastCollapse # NoCollapse

\* the claim as it was stated: the target and its neighbours hold -2
C26_Original ==
  AfterCollapse =>
    /\ dynamic_vertex[lastCollapse.rm_vertex] = -1
    /\ dynamic_vertex[lastCollapse.target_vertex] = -2
    /\ \A w \in Range(NNList[lastCollapse.target_vertex]) : dynamic_vertex[w] = -2

\* C26: after a collapse v->t, dynamic_vertex[v] = -1, and the entries of t
\* and of every current neighbour of t that the process owns hold the value
\* of coarsen_identify_kernel on the mesh after the collapse.
C26_ReevaluatedAfterCollapse ==
  (cpc \in {"phase2", "done"} /\ lastCollapse # NoCollapse) =>
    /\ dynamic_vertex[lastCollapse.rm_vertex] = -1
    /\ \A w \in {lastCollapse.target_vertex} \cup Range(NNList[lastCollapse.target_vertex]) :
         is_owned_node(w) => dynamic_vertex[w] = coarsen_identify_kernel(CurrentMesh, w)

\* after a collapse the target holds a new target of its own and one of its
\* neighbours holds -1
C26_Witness ==
  /\ AfterCollapse
  /\ cpc = "phase2"
  /\ ci = lastCollapse.rm_vertex + 1
  /\ is_owned_node(lastCollapse.target_vertex)
  /\ dynamic_vertex[lastCollapse.target_vertex] >= 0
  /\ \E w \in Range(NNList[lastCollapse.target_vertex]) :
        is_owned_node(w) /\ dynamic_vertex[w] = -1

-----------------------------------------------------------------------------
(* The area test on a patch with a thin element.  Vertex 1 is interior,   *)
(* its ring is 2, 3, 0, 4, 5; collapsing 1 onto 0 turns the element        *)
(* (1,2,3) of twice-area 1-y1 into (0,2,3) of twice-area 2-y2.             *)

ThinHeights == {-999, -1999}
ThinOffsets == 0..4

ThinENList == ZeroBased(<< <<1,2,3>>, <<1,3,0>>, <<1,0,4>>, <<1,4,5>>, <<1,5,2>> >>)

ThinCoords(y1, y2) ==
  ZeroBased(<< <<0, 0>>, <<1, y1>>, <<2, y2>>, <<1, 1>>,
               <<-1, 2*y1 - 3>>, <<3, 2*y1 - 3>> >>)

\* the boundary facets; (2,3) and (3,0) lie on one line when y2 = 2
ThinFacets(y2) ==
  { [n |-> {0,4}, plane |-> 1], [n |-> {4,5}, plane |-> 2], [n |-> {2,5}, plane |-> 3],
    [n |-> {2,3}, plane |-> 4], [n |-> {0,3}, plane |-> IF y2 = 2 THEN 4 ELSE 5] }

\* thresholds (unit 2*l^2): every edge of vertex 1 is short; the edges made
\* by a collapse of vertex 1 are below the first L_max and above the second
ThinL_low == {8100000}
ThinL_max == {1000000000, 1000000}

InitThin ==
  /\ NNodes = 6
  /\ NElements = 5
  /\ ENList = ThinENList
  /\ boundary = [e \in 0..4 |-> <<0,0,0>>]
  /\ NNList = create_adjacency(ThinENList, 6).NN
  /\ NEList = create_adjacency(ThinENList, 6).NE
  /\ \E y1 \in ThinHeights, y2 \in ThinOffsets :
        /\ coords = ThinCoords(y1, y2)
        /\ facets = ThinFacets(y2)
  /\ metric = [v \in 0..5 |-> 1]
  /\ lnn2gnn = [v \in 0..5 |-> v]
  /\ recv_halo = {} /\ send_halo = {}
  /\ node_owner = [v \in 0..5 |-> 0]
  /\ dynamic_vertex = <<>>
  /\ L_low = 0 /\ L_max = 0
  /\ cpc = "constructed"
  /\ ci = 0
  /\ phase_2 = FALSE
  /\ sweeps = 0
  /\ lastCollapse = NoCollapse
  /\ erased = {}
  /\ cthreads = 1
  /\ Phase1Idle
  /\ RefineIdle
  /\ SwapIdle

\* coarsen(L_low, L_max) with the thresholds of the thin patch
coarsenThin ==
  /\ cpc \in {"constructed", "done"}
  /\ sweeps < MaxSweeps
  /\ L_low' \in ThinL_low
  /\ L_max' \in ThinL_max
  /\ cpc' = "init"
  /\ sweeps' = sweeps + 1
  /\ UNCHANGED <<meshVars, dynamic_vertex, ci, phase_2, lastCollapse, erased,
                 refineVars, swapVars, phase1Vars>>

NextThin == coarsenThin \/ CoarsenInitialise \/ Phase2Collapse \/ Phase2Skip \/ Phase2NextPass \/ Phase2Exit

SpecThin == InitThin /\ [][NextThin]_vars

\* the elements of rm_vertex that survive its collapse onto target_vertex
Survivors(M, rm_vertex, target_vertex) == M.NE[rm_vertex] \ M.NE[target_vertex]

\* 1000 times the area of element ee after the collapse, and its area before
NewArea1000(M, ee, rm_vertex, target_vertex) ==
  1000 * ElementArea(ProposedElement(M.EN[ee], rm_vertex, target_vertex))

\* the claim as it was stated: a ratio of exactly 10^-3 passes
C27_Original ==
  \A v \in 0..(NNodes-1) : \A t \in Candidates(CurrentMesh, v) :
     ~AreaCheckFails(CurrentMesh, v, t) <=>
        \A ee \in Survivors(CurrentMesh, v, t) :
           NewArea1000(CurrentMesh, ee, v, t) >= ElementArea(ENList[ee])

\* C27: every element has a positive area, and a collapse v->t passes the
\* area test if and only if every element of v that survives has, with v
\* replaced by t, an area strictly greater than 10^-3 times its area
\* before; a target stored by coarsen_identify_kernel has passed the test.
C27_PassesIffAboveThousandth ==
  /\ \A e \in DOMAIN ENList : ENList[e][1] >= 0 => ElementArea(ENList[e]) > 0
  /\ \A v \in 0..(NNodes-1) : \A t \in Candidates(CurrentMesh, v) :
       ~AreaCheckFails(CurrentMesh, v, t) <=>
          \A ee \in Survivors(CurrentMesh, v, t) :
             NewArea1000(CurrentMesh, ee, v, t) > ElementArea(ENList[ee])
  /\ cpc \in {"phase2", "done"} =>
       \A v \in Evaluated : dynamic_vertex[v] >= 0 =>
          \A ee \in Survivors(CurrentMesh, v, dynamic_vertex[v]) :
             NewArea1000(CurrentMesh, ee, v, dynamic_vertex[v]) > ElementArea(ENList[ee])

\* the kernel has run on a patch where the collapse of vertex 1 onto its
\* nearest neighbour 0 gives a ratio of exactly 10^-3, and has not chosen 0
C27_Witness ==
  /\ cpc = "phase2"
  /\ lastCollapse = NoCollapse
  /\ 0 \in Candidates(CurrentMesh, 1)
  /\ \E ee \in Survivors(CurrentMesh, 1, 0) :
        NewArea1000(CurrentMesh, ee, 1, 0) = ElementArea(ENList[ee])
  /\ \A ee \in Survivors(CurrentMesh, 1, 0) :
        NewArea1000(CurrentMesh, ee, 1, 0) >= ElementArea(ENList[ee])
  /\ ~LengthCheckFails(CurrentMesh, 1, 0)
  /\ dynamic_vertex[1] # 0

-----------------------------------------------------------------------------
(* The diagonal of the 2-split *)

\* the new vertex the sweep put on the edge (a,b)
NewVertexOn(a, b) ==
  allNewVertices[CHOOSE k \in DOMAIN allNewVertices :
                    {allNewVertices[k].first, allNewVertices[k].second} = {a, b}].id

TwoSplits == {e \in OriginalElements : Cardinality(SplitEdgesOf(e)) = 2}

\* original element e read from the vertex opposite its unsplit edge on
Rot(e) == Rotated(pre.EN[e], UnsplitFacet(e) - 1)

\* the two candidate diagonals of the quadrilateral left by the corner
\* triangle: old vertex 1 to new vertex 0, old vertex 2 to new vertex 1
Diag0(e) == <<Rot(e)[2], NewVertexOn(Rot(e)[3], Rot(e)[1])>>
Diag1(e) == <<Rot(e)[3], NewVertexOn(Rot(e)[1], Rot(e)[2])>>

\* the edge d lies between two of the elements made from e
Drawn(e, d) ==
  Cardinality({c \in childrenOf[e] : {d[1], d[2]} \subseteq Range(ENList[c])}) = 2

Connected(d) == d[2] \in Range(NNList[d[1]]) /\ d[1] \in Range(NNList[d[2]])

\* the three triangles of the 2-split of e along the diagonal d, the other
\* candidate being o
SplitAlong(e, d, o) ==
  /\ {Range(ENList[c]) : c \in childrenOf[e]} =
       { {Rot(e)[1], o[2], d[2]}, {d[2], Rot(e)[2], Rot(e)[3]}, {d[2], o[2], d[1]} }
  /\ Drawn(e, d) /\ ~Drawn(e, o)
  /\ Connected(d) /\ ~Connected(o)
  /\ Connected(<<d[2], o[2]>>)
  /\ \A x \in Range(pre.EN[e]) \cup {d[2], o[2]} :
        NEList[x] \cap childrenOf[e] = {c \in childrenOf[e] : x \in Range(ENList[c])}
  /\ e \notin NEList[Rot(e)[1]]

\* C28: when refine() has returned, an element split along two edges has
\* been cut along the candidate diagonal of lesser metric length (old vertex
\* 2 to new vertex 1 when the lengths are equal), and the three triangles,
\* the entries of NNList and the entries of NEList are those of that
\* diagonal: its two ends are neighbours, the ends of the other candidate
\* are not, and each vertex has exactly the triangles that contain it.
C28_ShorterDiagonal ==
  rpc = "done" =>
    \A e \in TwoSplits :
       LET l0 == calc_edge_length(Diag0(e)[1], Diag0(e)[2])
           l1 == calc_edge_length(Diag1(e)[1], Diag1(e)[2])
       IN IF l0 < l1 THEN SplitAlong(e, Diag0(e), Diag1(e))
                     ELSE SplitAlong(e, Diag1(e), Diag0(e))

\* refine() has returned from a sweep that made a 2-split along each of the
\* candidates, the one drawn strictly shorter than the other
C28_Witness ==
  /\ rpc = "done"
  /\ \E e, f \in TwoSplits :
        /\ Drawn(e, Diag0(e))
        /\ calc_edge_length(Diag0(e)[1], Diag0(e)[2]) < calc_edge_length(Diag1(e)[1], Diag1(e)[2])
        /\ Drawn(f, Diag1(f))
        /\ calc_edge_length(Diag1(f)[1], Diag1(f)[2]) < calc_edge_length(Diag0(f)[1], Diag0(f)[2])

-----------------------------------------------------------------------------
(* Swapping::swap, ndims == 3.  An element is a 4-tuple; coords[v] is a    *)
(* triple; NEList[v] is a set.  The 3D part of swap() is sequential.       *)

\* six times the signed volume of the tetrahedron (x0,x1,x2,x3)
volume6(x0, x1, x2, x3) ==
  LET u == <<x1[1]-x0[1], x1[2]-x0[2], x1[3]-x0[3]>>
      v == <<x2[1]-x0[1], x2[2]-x0[2], x2[3]-x0[3]>>
      w == <<x3[1]-x0[1], x3[2]-x0[2], x3[3]-x0[3]>>
  IN   u[1] * (v[2]*w[3] - v[3]*w[2])
     - u[2] * (v[1]*w[3] - v[3]*w[1])
     + u[3] * (v[1]*w[2] - v[2]*w[1])

\* ElementProperty::lipnikov for a tetrahedron under the unit metric, as
\* the pair <<numerator, denominator>> of sign(V)*V^2 / (sum of the squared
\* edge lengths)^3: positive for a positively oriented element, negative
\* for an inverted one, greater for a rounder one
lipnikov3(x0, x1, x2, x3) ==
  LET d2(a, b) == (a[1]-b[1])*(a[1]-b[1]) + (a[2]-b[2])*(a[2]-b[2])
                + (a[3]-b[3])*(a[3]-b[3])
      V == volume6(x0, x1, x2, x3)
      s == d2(x0,x1) + d2(x0,x2) + d2(x0,x3) + d2(x1,x2) + d2(x1,x3) + d2(x2,x3)
  IN <<Sign(V) * V * V, s * s * s>>

TetQuality(n) == lipnikov3(coords[n[1]], coords[n[2]], coords[n[3]], coords[n[4]])

\* "Cache the element quality's": 0 for an erased element
CachedQuality3(EN, e) == IF EN[e][1] < 0 THEN <<0, 1>> ELSE TetQuality(EN[e])

\* the least of a non-empty sequence of qualities, as a chain of std::min:
\* of equal least values the last one
MinQuality3(s) ==
  s[CHOOSE k \in DOMAIN s : /\ \A j \in DOMAIN s : ~QLess(s[j], s[k])
                            /\ \A j \in (k+1)..Len(s) : QLess(s[k], s[j])]

\* Mesh::append_element: the element is written at the end of ENList; the
\* adjacency lists are left as they are
append_element(EN, n) ==
  [e \in 0..(Cardinality(DOMAIN EN)) |-> IF e \in DOMAIN EN THEN EN[e] ELSE n]

RECURSIVE append_elements(_, _)
append_elements(EN, s) ==
  IF s = <<>> THEN EN ELSE append_elements(append_element(EN, Head(s)), Tail(s))

\* the element-element entry of face j of element i: the first element
\* other than i that has the three vertices n[(j+1)%4], n[(j+2)%4], n[(j+3)%4]
FaceNeighbour(EN, NE, i, j) ==
  LET n  == EN[i]
      EE == (NE[n[((j+1) % 4) + 1]] \cap NE[n[((j+2) % 4) + 1]]
                                    \cap NE[n[((j+3) % 4) + 1]]) \ {i}
  IN IF EE = {} THEN -1 ELSE SetMin(EE)

\* "Only start storing information for poor elements."
PoorElements(EN, q, Q_min) ==
  {i \in DOMAIN EN : EN[i][1] >= 0 /\ QLess(q[i], Q_min)}

BuildPartialEEList(EN, NE, q, Q_min) ==
  [i \in PoorElements(EN, q, Q_min) |-> [j \in 1..4 |-> FaceNeighbour(EN, NE, i, j - 1)]]

\* the keys of graph: the poor elements and the entries of their lists,
\* the entry -1 among them
GraphNodes(pEE) == DOMAIN pEE \cup UNION {Range(pEE[i]) : i \in DOMAIN pEE}

GraphEdge(pEE, a, b) ==
  \/ a \in DOMAIN pEE /\ b \in Range(pEE[a])
  \/ b \in DOMAIN pEE /\ a \in Range(pEE[b])

\* Colour::greedy: the nodes are coloured in the order of their index, each
\* with the least colour none of its neighbours of lesser index has
RECURSIVE greedy(_, _, _)
greedy(renumber, pEE, done) ==
  IF Len(done) = Len(renumber) THEN done
  ELSE LET node == Len(done) + 1
           used == {done[k] : k \in {x \in 1..Len(done) :
                                       GraphEdge(pEE, renumber[x], renumber[node])}}
           col  == CHOOSE c \in 0..Len(done) : c \notin used /\ \A d \in 0..(c-1) : d \in used
       IN greedy(renumber, pEE, Append(done, col))

\* a plausible slip: the largest colour is inside the bound of the loops
ColoursProcessed_All(max_colour) == 0..max_colour

\* "for(int c=0;c<max_colour;c++)": the colours the two loops run over
ColoursProcessed(max_colour) == 0..(max_colour - 1)

\* ---- face-to-edge

\* hull[0..3] for the face j of the element n, hull[4] from the element m
\* across that face
Hull(n, j, m) ==
  LET h == IF j = 0 THEN <<n[2], n[4], n[3], n[1]>>
           ELSE IF j = 1 THEN <<n[3], n[4], n[1], n[2]>>
           ELSE IF j = 2 THEN <<n[1], n[4], n[2], n[3]>>
           ELSE <<n[1], n[2], n[3], n[4]>>
      far == {k \in 1..4 : m[k] \notin Range(n)}
  IN h \o <<IF far = {} THEN -1 ELSE m[SetMin(far)]>>

\* "New element: 0143", "1243", "2043"
FaceToEdgeElements(hull) ==
  << <<hull[1], hull[2], hull[5], hull[4]>>,
     <<hull[2], hull[3], hull[5], hull[4]>>,
     <<hull[3], hull[1], hull[5], hull[4]>> >>

\* a plausible slip: the new elements need only be as good as the old ones
Better_OrEqual(old, new) == ~QLess(new, old)

\* "std::min(old...) < std::min(new...)", "!(new <= min_quality)"
Better(old, new) == QLess(old, new)

\* "Check adjacency is not toxic."
Toxic(EN, pEE, eid0) ==
  \E j \in 1..4 : pEE[eid0][j] # -1 /\ EN[pEE[eid0][j]][1] < 0

\* the faces j of eid0 across which the swap raises the least quality
ImprovingFaces(EN, q, pEE, eid0) ==
  {j \in 0..3 :
     /\ pEE[eid0][j+1] # -1
     /\ LET eid1 == pEE[eid0][j+1]
            new  == FaceToEdgeElements(Hull(EN[eid0], j, EN[eid1]))
        IN Better(QMin(q[eid0], q[eid1]),
                  MinQuality3([x \in 1..3 |-> TetQuality(new[x])]))}

\* ---- edge-to-face

\* the pairs (k,l) in the order of the two loops
EdgePairs == << <<0,1>>, <<0,2>>, <<0,3>>, <<1,2>>, <<1,3>>, <<2,3>> >>

\* the two vertices of m that are not on the edge, in the order of m
OffEdge(m, nk, nl) ==
  LET idx == {j \in 1..4 : m[j] # nk /\ m[j] # nl}
  IN <<m[SetMin(idx)], m[SetMin(idx \ {SetMin(idx)})]>>

\* the value of an expression, computed once: the element of a singleton
Only(S) == CHOOSE x \in S : TRUE

\* "Sort edges.": one round of the outer loop, on the pair of
\* constrained_edges and the set of the positions already taken
SortRound(unsorted, st) ==
  LET last == st.ce[Len(st.ce)]
      hit  == {e \in 2..Len(unsorted) :
                 e \notin st.sorted /\ (unsorted[e][1] = last \/ unsorted[e][2] = last)}
      e    == SetMin(hit)
  IN IF hit = {} THEN st
     ELSE [ce     |-> st.ce \o (IF unsorted[e][1] = last THEN unsorted[e]
                                ELSE <<unsorted[e][2], unsorted[e][1]>>),
           sorted |-> st.sorted \cup {e}]

RECURSIVE SortEdges(_, _, _)
SortEdges(unsorted, st, rounds) ==
  IF rounds = 0 THEN st.ce
  ELSE Only({SortEdges(unsorted, next, rounds - 1) : next \in {SortRound(unsorted, st)}})

\* a plausible slip: the first row of the block for five elements is a
\* copy of the last one
Templates_Repeated(nelements) ==
  IF nelements = 3 THEN
    << << <<0,2,4,1>>, <<2,0,4,0>> >> >>
  ELSE IF nelements = 4 THEN
    << << <<0,2,6,1>>, <<2,4,6,1>>, <<2,0,6,0>>, <<4,2,6,0>> >>,
       << <<0,2,4,1>>, <<0,4,6,1>>, <<0,4,2,0>>, <<0,6,4,0>> >> >>
  ELSE IF nelements = 5 THEN
    << << <<8,0,2,1>>, <<8,2,4,1>>, <<8,4,6,1>>, <<8,2,0,0>>, <<8,4,2,0>>, <<8,6,4,0>> >>,
       << <<0,2,8,1>>, <<2,6,8,1>>, <<2,4,6,1>>, <<0,8,2,0>>, <<2,8,6,0>>, <<2,6,4,0>> >>,
       << <<4,0,2,1>>, <<4,8,0,1>>, <<4,6,8,1>>, <<4,2,0,0>>, <<4,0,8,0>>, <<4,8,6,0>> >>,
       << <<6,2,4,1>>, <<6,0,2,1>>, <<6,8,0,1>>, <<6,4,2,0>>, <<6,2,0,0>>, <<6,0,8,0>> >>,
       << <<8,0,2,1>>, <<8,2,4,1>>, <<8,4,6,1>>, <<8,2,0,0>>, <<8,4,2,0>>, <<8,6,4,0>> >> >>
  ELSE IF nelements = 6 THEN
    << << <<0,2,10,1>>, <<4,6,8,1>>, <<2,4,10,1>>, <<10,4,8,1>>,
          <<2,0,10,0>>, <<6,4,8,0>>, <<4,2,10,0>>, <<4,10,8,0>> >> >>
  ELSE <<>>

\* the templates: each row is one new element, three positions of
\* constrained_edges and the end of the edge (1 for n[l], 0 for n[k])
Templates(nelements) ==
  IF nelements = 3 THEN
    << << <<0,2,4,1>>, <<2,0,4,0>> >> >>
  ELSE IF nelements = 4 THEN
    << << <<0,2,6,1>>, <<2,4,6,1>>, <<2,0,6,0>>, <<4,2,6,0>> >>,
       << <<0,2,4,1>>, <<0,4,6,1>>, <<0,4,2,0>>, <<0,6,4,0>> >> >>
  ELSE IF nelements = 5 THEN
    << << <<0,2,4,1>>, <<4,6,0,1>>, <<6,8,0,1>>, <<2,0,4,0>>, <<6,4,0,0>>, <<8,6,0,0>> >>,
       << <<0,2,8,1>>, <<2,6,8,1>>, <<2,4,6,1>>, <<0,8,2,0>>, <<2,8,6,0>>, <<2,6,4,0>> >>,
       << <<4,0,2,1>>, <<4,8,0,1>>, <<4,6,8,1>>, <<4,2,0,0>>, <<4,0,8,0>>, <<4,8,6,0>> >>,
       << <<6,2,4,1>>, <<6,0,2,1>>, <<6,8,0,1>>, <<6,4,2,0>>, <<6,2,0,0>>, <<6,0,8,0>> >>,
       << <<8,0,2,1>>, <<8,2,4,1>>, <<8,4,6,1>>, <<8,2,0,0>>, <<8,4,2,0>>, <<8,6,4,0>> >> >>
  ELSE IF nelements = 6 THEN
    << << <<0,2,10,1>>, <<4,6,8,1>>, <<2,4,10,1>>, <<10,4,8,1>>,
          <<2,0,10,0>>, <<6,4,8,0>>, <<4,2,10,0>>, <<4,10,8,0>> >> >>
  ELSE <<>>

\* new_elements: the candidate retriangulations for the sorted ring
NewElements(ce, nk, nl) ==
  [o \in DOMAIN Templates(Len(ce) \div 2) |->
     [j \in DOMAIN Templates(Len(ce) \div 2)[o] |->
        Only({<<ce[t[1] + 1], ce[t[2] + 1], ce[t[3] + 1], IF t[4] = 1 THEN nl ELSE nk>> :
              t \in {Templates(Len(ce) \div 2)[o][j]}})]]

\* "Invert elements.": the first two vertices of every element change places
Invert(opts) ==
  [o \in DOMAIN opts |-> [j \in DOMAIN opts[o] |->
     <<opts[o][j][2], opts[o][j][1], opts[o][j][3], opts[o][j][4]>>]]

\* a plausible slip: the first candidate is taken
BestOption_First(nmq) == 1

\* best_option: the first candidate whose least quality none exceeds
BestOption(nmq) ==
  CHOOSE b \in DOMAIN nmq :
     /\ \A o \in DOMAIN nmq : ~QLess(nmq[b], nmq[o])
     /\ \A o \in 1..(b-1) : QLess(nmq[o], nmq[b])

\* "Check new minimum quality.": newq, new_min_quality and best_option of
\* one round of the invert loop
ScoreOf(newq) ==
  Only({[newq |-> newq, new_min_quality |-> nmq, best_option |-> BestOption(nmq)] :
        nmq \in {[o \in DOMAIN newq |-> MinQuality3(newq[o])]}})

Score(opts) ==
  Only({ScoreOf(newq) :
        newq \in {[o \in DOMAIN opts |-> [j \in DOMAIN opts[o] |-> TetQuality(opts[o][j])]]}})

\* the invert loop: the candidates and the scores it ends with.  When both
\* rounds end below zero the elements are inverted twice and the scores are
\* those of the second round.
ScoredPick(opts, r0, r1) ==
  IF ~QLess(r0.new_min_quality[r0.best_option], <<0, 1>>)
  THEN [new_elements |-> opts, score |-> r0]
  ELSE IF ~QLess(r1.new_min_quality[r1.best_option], <<0, 1>>)
       THEN [new_elements |-> Invert(opts), score |-> r1]
       ELSE [new_elements |-> opts, score |-> r1]

Scored(opts) ==
  Only({ScoredPick(opts, r0, r1) : r0 \in {Score(opts)}, r1 \in {Score(Invert(opts))}})

\* the end of the body of the loop over l: the test of the best candidate
\* against the cavity
Decide3(neigh, min_quality, ce, nk, nl, s) ==
  IF ~Better(min_quality, s.score.new_min_quality[s.score.best_option])
  THEN [status |-> "next"]
  ELSE [status |-> "swap", erased |-> neigh, min_quality |-> min_quality,
        ce |-> ce, nk |-> nk, nl |-> nl,
        new |-> s.new_elements[s.score.best_option],
        newq |-> s.score.newq[s.score.best_option],
        options |-> s.score.new_min_quality, best_option |-> s.score.best_option,
        candidates |-> s.new_elements]

\* the body of the loop over l once the ring is sorted
Retriangulate(neigh, min_quality, ce, nk, nl) ==
  IF ce[1] # ce[Len(ce)] THEN [status |-> "toxic"]
  ELSE IF Templates(Len(neigh)) = <<>> THEN [status |-> "next"]
  ELSE Only({Decide3(neigh, min_quality, ce, nk, nl, s) :
             s \in {Scored(opts) : opts \in {NewElements(ce, nk, nl)}}})

\* the body of the loop over l for the elements neigh around (nk, nl)
Cavity(EN, q, eid0, nk, nl, neigh) ==
  IF \E x \in DOMAIN neigh : EN[neigh[x]][1] < 0
  THEN [status |-> "toxic"]
  ELSE Only({Retriangulate(neigh, min_quality, ce, nk, nl) :
             min_quality \in {MinQuality3(<<q[eid0]>> \o [x \in DOMAIN neigh |-> q[neigh[x]]])},
             ce \in {SortEdges(unsorted, [ce |-> unsorted[1], sorted |-> {}], Len(neigh) - 1) :
                     unsorted \in {[x \in DOMAIN neigh |-> OffEdge(EN[neigh[x]], nk, nl)]}}})

\* the body of the loop over l for the edge (n[k],n[l]) of element eid0
EdgeToFace(EN, NE, q, eid0, k, l) ==
  Only({Cavity(EN, q, eid0, EN[eid0][k+1], EN[eid0][l+1], neigh) :
        neigh \in {SortedSeq(NE[EN[eid0][k+1]] \cap NE[EN[eid0][l+1]])}})

\* the loops over k and l: what the first edge at which they stop gives,
\* status "next" if they run to the end
StoppingEdge(EN, NE, q, eid0) ==
  Only({IF \A p \in 1..6 : rs[p].status = "next" THEN [status |-> "next"]
        ELSE rs[SetMin({p \in 1..6 : rs[p].status # "next"})] :
        rs \in {[p \in 1..6 |-> EdgeToFace(EN, NE, q, eid0, EdgePairs[p][1], EdgePairs[p][2])]}})

\* ---- input meshes: tetrahedra around the edge from vertex 0 at (1,1,0)
\* to vertex 1 above it, the other vertices in a ring around the edge

Ring3  == << <<0,0,1>>, <<2,0,1>>, <<1,2,1>> >>
Ring4  == << <<0,0,1>>, <<2,0,1>>, <<2,2,1>>, <<0,1,1>> >>
Ring5a == << <<0,0,1>>, <<1,0,1>>, <<2,1,1>>, <<2,2,1>>, <<1,2,1>> >>
Ring5b == << <<0,0,1>>, <<1,0,1>>, <<2,0,1>>, <<2,1,1>>, <<1,2,1>> >>
Ring6  == << <<0,0,1>>, <<2,0,1>>, <<2,1,1>>, <<2,2,1>>, <<0,2,1>>, <<0,1,1>> >>
\* a ring whose only candidate is as good as the cavity and no better
Ring3t == << <<0,0,0>>, <<2,0,0>>, <<1,2,1>> >>
\* rings with more than one candidate better than the cavity
Ring4b == << <<0,0,1>>, <<2,0,1>>, <<2,1,1>>, <<0,2,1>> >>
Ring5c == << <<0,0,1>>, <<1,0,1>>, <<2,2,1>>, <<1,2,1>>, <<0,2,1>> >>

\* the k elements (0, 1, c_i, c_(i+1)) around the edge (0,1)
CavityOf(top, ring) ==
  [X  |-> << <<1,1,0>>, <<1,1,top>> >> \o ring,
   EN |-> [i \in 1..Len(ring) |-> <<0, 1, i + 1, (i % Len(ring)) + 2>>]]

\* two elements on the two sides of the face (2,3,4)
FacePair ==
  [X  |-> << <<1,1,0>>, <<1,1,2>>, <<0,2,1>>, <<0,0,0>>, <<2,1,0>> >>,
   EN |-> << <<2,3,4,1>>, <<3,2,4,0>> >>]

Reversed(s) == [k \in 1..Len(s) |-> s[Len(s) + 1 - k]]

Inputs3 ==
  LET base == {FacePair, CavityOf(2, Ring3), CavityOf(2, Ring4), CavityOf(2, Ring5a),
                  CavityOf(2, Ring5b), CavityOf(3, Ring6), CavityOf(2, Ring3t),
                  CavityOf(3, Ring4b), CavityOf(3, Ring5c)}
  IN base \cup {[X |-> m.X, EN |-> Reversed(m.EN)] : m \in base}

\* the thresholds swap(Q_min) is called with: below every element, between
\* the elements, the quality of the regular tetrahedron
QMinValues3 == { <<0, 1>>, <<1, 1000>>, <<1, 432>> }

\* what the read of colour[0] gives when the graph has no node
NoColour == {0, 2}

MaxColour(colour) == CHOOSE m \in Range(colour) : \A x \in Range(colour) : x <= m

swap3Fixed == <<NNodes, boundary, coords, metric, lnn2gnn, node_owner, recv_halo,
                send_halo, facets, coarsenVars, refineVars, L_max,
                si, marked_edges, n_marked_edges, originalVertexDegree, localNEList,
                th, flips, swapPre, passes, firstRun>>

Init3D ==
  /\ \E m \in Inputs3 :
       /\ NNodes = Len(m.X)
       /\ NElements = Len(m.EN)
       /\ ENList = ZeroBased(m.EN)
       /\ NNList = create_adjacency(ZeroBased(m.EN), Len(m.X)).NN
       /\ NEList = create_adjacency(ZeroBased(m.EN), Len(m.X)).NE
       /\ coords = ZeroBased(m.X)
       /\ boundary = [e \in 0..(Len(m.EN) - 1) |-> <<0,0,0,0>>]
       /\ metric = [v \in 0..(Len(m.X) - 1) |-> 1]
       /\ lnn2gnn = [v \in 0..(Len(m.X) - 1) |-> v]
       /\ node_owner = [v \in 0..(Len(m.X) - 1) |-> 0]
  /\ recv_halo = {} /\ send_halo = {}
  /\ facets = {}
  /\ dynamic_vertex = <<>>
  /\ L_low = 0 /\ L_max = 0
  /\ cpc = "constructed"
  /\ ci = 0
  /\ phase_2 = FALSE
  /\ sweeps = 0
  /\ lastCollapse = NoCollapse
  /\ erased = {}
  /\ cthreads = 1
  /\ Phase1Idle
  /\ RefineIdle
  /\ SwapIdle

\* swap(Q_min), ndims == 3, up to the colour loops: the quality cache,
\* partialEEList, the graph and its colouring
swap3D ==
  \E Q_min \in QMinValues3 :
    /\ spc \in {"constructed", "done"}
    /\ sweeps < MaxSweeps
    /\ sweeps' = sweeps + 1
    /\ LET q == [e \in DOMAIN ENList |-> CachedQuality3(ENList, e)]
           pEE == BuildPartialEEList(ENList, NEList, q, Q_min)
           renumber == SortedSeq(GraphNodes(pEE))
           colour == greedy(renumber, pEE, <<>>)
           start(max_colour) ==
             [renumber |-> renumber, colour |-> colour, max_colour |-> max_colour,
              c |-> 0, i |-> 0, faceSeen |-> {}, edgeSeen |-> {}, log |-> <<>>]
       IN /\ quality' = q
          /\ partialEEList' = pEE
          /\ IF renumber # <<>>
             THEN spc' = "face" /\ s3' = start(MaxColour(colour))
             ELSE \/ spc' = "abort" /\ s3' = start(0)
                  \/ spc' = "face" /\ \E g \in NoColour : s3' = start(g)
    /\ UNCHANGED <<swap3Fixed, NElements, ENList, NNList, NEList>>

\* the element the loops are at, and the test made on it before anything else
Eid0 == s3.renumber[s3.i + 1]

InLoop(phase) ==
  /\ spc = phase
  /\ s3.c \in ColoursProcessed(s3.max_colour)
  /\ s3.i < Len(s3.renumber)

Selected ==
  /\ s3.colour[s3.i + 1] = s3.c
  /\ Eid0 \in DOMAIN partialEEList
  /\ ENList[Eid0][1] >= 0

\* face-to-edge: the element is of another colour, not poor, deleted or toxic
Face3Skip ==
  /\ InLoop("face")
  /\ ~(Selected /\ ~Toxic(ENList, partialEEList, Eid0))
  /\ s3' = [s3 EXCEPT !.i = @ + 1]
  /\ UNCHANGED <<swap3Fixed, spc, sweeps, NElements, ENList, NNList, NEList, quality,
                 partialEEList>>

\* face-to-edge: no face of the element gives a better triple
Face3Keep ==
  /\ InLoop("face")
  /\ Selected /\ ~Toxic(ENList, partialEEList, Eid0)
  /\ ImprovingFaces(ENList, quality, partialEEList, Eid0) = {}
  /\ s3' = [s3 EXCEPT !.i = @ + 1, !.faceSeen = @ \cup {Eid0}]
  /\ UNCHANGED <<swap3Fixed, spc, sweeps, NElements, ENList, NNList, NEList, quality,
                 partialEEList>>

\* face-to-edge: the swap across the first face that gives a better triple
Face3Swap ==
  /\ InLoop("face")
  /\ Selected /\ ~Toxic(ENList, partialEEList, Eid0)
  /\ ImprovingFaces(ENList, quality, partialEEList, Eid0) # {}
  /\ LET j    == SetMin(ImprovingFaces(ENList, quality, partialEEList, Eid0))
         eid1 == partialEEList[Eid0][j + 1]
         new  == FaceToEdgeElements(Hull(ENList[Eid0], j, ENList[eid1]))
         newq == [x \in 1..3 |-> TetQuality(new[x])]
         M    == erase_element(erase_element(CurrentMesh, Eid0), eid1)
     IN /\ ENList' = append_elements(M.EN, new)
        /\ NEList' = M.NE
        /\ quality' = append_elements(quality, newq)
        /\ NElements' = NElements + 3
        /\ s3' = [s3 EXCEPT !.i = @ + 1, !.faceSeen = @ \cup {Eid0},
                            !.log = Append(@, [kind |-> "face", erased |-> <<Eid0, eid1>>,
                                               oldq |-> <<quality[Eid0], quality[eid1]>>,
                                               old |-> <<ENList[Eid0], ENList[eid1]>>,
                                               new |-> new, newq |-> newq,
                                               options |-> <<MinQuality3(newq)>>,
                                               candidates |-> <<new>>,
                                               nk |-> -1, nl |-> -1, ce |-> <<>>])]
  /\ UNCHANGED <<swap3Fixed, spc, sweeps, NNList, partialEEList>>

\* the end of the loop over i
Swap3NextColour ==
  /\ spc \in {"face", "edge"}
  /\ s3.c \in ColoursProcessed(s3.max_colour)
  /\ s3.i = Len(s3.renumber)
  /\ s3' = [s3 EXCEPT !.c = @ + 1, !.i = 0]
  /\ UNCHANGED <<swap3Fixed, spc, sweeps, NElements, ENList, NNList, NEList, quality,
                 partialEEList>>

\* the end of the first loop over c
Face3Done ==
  /\ spc = "face"
  /\ s3.c \notin ColoursProcessed(s3.max_colour)
  /\ spc' = "edge"
  /\ s3' = [s3 EXCEPT !.c = 0, !.i = 0]
  /\ UNCHANGED <<swap3Fixed, sweeps, NElements, ENList, NNList, NEList, quality,
                 partialEEList>>

\* edge-to-face: the element is of another colour, not poor or deleted
Edge3Skip ==
  /\ InLoop("edge")
  /\ ~Selected
  /\ s3' = [s3 EXCEPT !.i = @ + 1]
  /\ UNCHANGED <<swap3Fixed, spc, sweeps, NElements, ENList, NNList, NEList, quality,
                 partialEEList>>

\* edge-to-face: the loops over the edges of the element end without a
\* swap, at a toxic edge or after the last edge
Edge3Keep ==
  /\ InLoop("edge")
  /\ Selected
  /\ StoppingEdge(ENList, NEList, quality, Eid0).status # "swap"
  /\ s3' = [s3 EXCEPT !.i = @ + 1, !.edgeSeen = @ \cup {Eid0}]
  /\ UNCHANGED <<swap3Fixed, spc, sweeps, NElements, ENList, NNList, NEList, quality,
                 partialEEList>>

\* edge-to-face: the swap at the first edge that gives a better cavity
Edge3Swap ==
  /\ InLoop("edge")
  /\ Selected
  /\ \E r \in {StoppingEdge(ENList, NEList, quality, Eid0)} :
       /\ r.status = "swap"
       /\ \E M \in {erase_elements(CurrentMesh, r.erased)} :
            /\ ENList' = append_elements(M.EN, r.new)
            /\ NEList' = M.NE
       /\ quality' = append_elements(quality, r.newq)
       /\ NElements' = NElements + Len(r.new)
       /\ s3' = [s3 EXCEPT !.i = @ + 1, !.edgeSeen = @ \cup {Eid0},
                           !.log = Append(@, [kind |-> "edge", erased |-> r.erased,
                                     oldq |-> [x \in DOMAIN r.erased |-> quality[r.erased[x]]],
                                     old |-> [x \in DOMAIN r.erased |-> ENList[r.erased[x]]],
                                     new |-> r.new, newq |-> r.newq,
                                     options |-> r.options, candidates |-> r.candidates,
                                     nk |-> r.nk, nl |-> r.nl, ce |-> r.ce])]
  /\ UNCHANGED <<swap3Fixed, spc, sweeps, NNList, partialEEList>>

\* the end of the second loop over c: "recalculate adjacency" and return
Swap3Return ==
  /\ spc = "edge"
  /\ s3.c \notin ColoursProcessed(s3.max_colour)
  /\ spc' = "done"
  /\ NNList' = create_adjacency(ENList, NNodes).NN
  /\ NEList' = create_adjacency(ENList, NNodes).NE
  /\ UNCHANGED <<swap3Fixed, sweeps, NElements, ENList, quality, partialEEList, s3>>

Next3D ==
  \/ swap3D
  \/ Face3Skip \/ Face3Keep \/ Face3Swap \/ Face3Done
  \/ Edge3Skip \/ Edge3Keep \/ Edge3Swap
  \/ Swap3NextColour \/ Swap3Return

Spec3D == Init3D /\ [][Next3D]_vars

-----------------------------------------------------------------------------
(* The candidates of the edge-to-face swap *)

\* the edge-to-face swaps of the call so far
EdgeSwaps == {x \in DOMAIN s3.log : s3.log[x].kind = "edge"}

\* the apex ring c0..c(k-1) of a sorted cavity
RingOf(ce) == [i \in 1..(Len(ce) \div 2) |-> ce[2 * i - 1]]

\* the triangles of a candidate on the side of the vertex end
TrianglesAt(cand, end) ==
  {{cand[j][1], cand[j][2], cand[j][3]} : j \in {y \in DOMAIN cand : cand[y][4] = end}}

\* the pairs of ring vertices that are sides of the ring polygon
RingSides(ring) ==
  {{ring[i], ring[(i % Len(ring)) + 1]} : i \in DOMAIN ring}

\* the diagonals (a,b) and (c,d) of the ring cross
Crossing(ring, d1, d2) ==
  \E a, b, c, d \in DOMAIN ring :
    /\ {ring[a], ring[b]} = d1 /\ {ring[c], ring[d]} = d2
    /\ a < c /\ c < b /\ b < d

\* tris is a triangulation of the ring polygon: k-2 triangles on ring
\* vertices, every side of the polygon in exactly one of them, every other
\* pair of a triangle in exactly two, k-3 diagonals, no two of them crossing
IsTriangulation(ring, tris) ==
  LET k     == Len(ring)
      pairs == UNION {{p \in SUBSET t : Cardinality(p) = 2} : t \in tris}
      diags == pairs \ RingSides(ring)
      uses(p) == Cardinality({t \in tris : p \subseteq t})
  IN /\ Cardinality(tris) = k - 2
     /\ \A t \in tris : t \subseteq Range(ring) /\ Cardinality(t) = 3
     /\ \A p \in RingSides(ring) : uses(p) = 1
     /\ \A p \in diags : uses(p) = 2
     /\ Cardinality(diags) = k - 3
     /\ \A d1, d2 \in diags : ~Crossing(ring, d1, d2)

\* the element b is the element a with the vertex end in place of its last
\* vertex and the other three in the opposite orientation
Mirrored(a, b, end) ==
  /\ b[4] = end
  /\ <<b[1], b[2], b[3]>> \in {<<a[2], a[1], a[3]>>, <<a[1], a[3], a[2]>>, <<a[3], a[2], a[1]>>}

CandidateCount(k) == IF k = 3 THEN 1 ELSE IF k = 4 THEN 2 ELSE IF k = 5 THEN 5 ELSE 1

\* C30: for an edge (n_k,n_l) shared by k = 3, 4, 5, 6 elements the
\* candidates are 1, 2, 5, 1 in number; each one is a triangulation of the
\* ring polygon into k-2 triangles, every triangle with one element at n_l
\* and one mirrored element at n_k, 2(k-2) elements none of which has both
\* n_k and n_l; the candidates are pairwise distinct, so for k = 5 they are
\* the five triangulations of the pentagon
C30_CandidatesAreTriangulations ==
  \A x \in EdgeSwaps :
    LET e    == s3.log[x]
        k    == Len(e.erased)
        ring == RingOf(e.ce)
        C    == e.candidates
    IN /\ k \in 3..6
       /\ Cardinality(Range(ring)) = k
       /\ Len(C) = CandidateCount(k)
       /\ \A o \in DOMAIN C :
            /\ Len(C[o]) = 2 * (k - 2)
            /\ \A j \in DOMAIN C[o] : ~({e.nk, e.nl} \subseteq Range(C[o][j]))
            /\ \A j \in DOMAIN C[o] : C[o][j][4] \in {e.nk, e.nl}
            /\ IsTriangulation(ring, TrianglesAt(C[o], e.nl))
            /\ TrianglesAt(C[o], e.nk) = TrianglesAt(C[o], e.nl)
            /\ Cardinality({j \in DOMAIN C[o] : C[o][j][4] = e.nl}) = k - 2
            /\ \A j \in DOMAIN C[o] :
                 C[o][j][4] = e.nl =>
                   Cardinality({y \in DOMAIN C[o] : Mirrored(C[o][j], C[o][y], e.nk)}) = 1
       /\ \A o1, o2 \in DOMAIN C :
            o1 # o2 => TrianglesAt(C[o1], e.nl) # TrianglesAt(C[o2], e.nl)
       /\ k = 5 => Cardinality({TrianglesAt(C[o], e.nl) : o \in DOMAIN C}) = 5

\* the call has ended and every cavity it retriangulated had five or six
\* elements
C30_Witness ==
  /\ spc = "done"
  /\ EdgeSwaps # {}
  /\ \A x \in EdgeSwaps : Len(s3.log[x].erased) \in {5, 6}

-----------------------------------------------------------------------------
(* The acceptance test of the 3D swaps *)

\* the least quality of the elements of a candidate, from their coordinates
MinOf(cand) == MinQuality3([j \in DOMAIN cand |-> TetQuality(cand[j])])

\* C22: a face-to-edge or an edge-to-face swap is committed only if the
\* least quality of the elements written is strictly greater than the
\* least cached quality of the elements erased, and of the candidates of an
\* edge cavity none has a greater least quality than the one committed
C22_CommitImprovesAndIsBest ==
  \A x \in DOMAIN s3.log :
    LET e == s3.log[x]
    IN /\ QLess(MinQuality3(e.oldq), MinOf(e.new))
       /\ \A o \in DOMAIN e.candidates : ~QLess(MinOf(e.new), MinOf(e.candidates[o]))
       /\ \E o \in DOMAIN e.candidates : e.candidates[o] = e.new
       /\ \A j \in DOMAIN e.erased : ENList[e.erased[j]][1] < 0
       /\ \A j \in DOMAIN e.new :
            \E y \in DOMAIN ENList : ENList[y] = e.new[j] /\ quality[y] = TetQuality(e.new[j])

\* an edge cavity has been retriangulated with a candidate that is not the
\* first and strictly better than the first
C22_Witness ==
  \E x \in EdgeSwaps :
    /\ Len(s3.log[x].candidates) >= 2
    /\ s3.log[x].candidates[1] # s3.log[x].new
    /\ QLess(MinOf(s3.log[x].candidates[1]), MinOf(s3.log[x].new))
    /\ QLess(MinQuality3(s3.log[x].oldq), MinOf(s3.log[x].candidates[1]))

-----------------------------------------------------------------------------
(* The colours the 3D swap runs over *)

\* the poor elements that the call leaves alive and with no deleted
\* neighbour in partialEEList
LeftAliveAndSound ==
  {e \in DOMAIN partialEEList : ENList[e][1] >= 0 /\ ~Toxic(ENList, partialEEList, e)}

\* C29: the 3D swap runs over every colour of the greedy colouring: when the
\* call has returned, every element with quality < Q_min that is alive and
\* not toxic has been considered for a face-to-edge swap and for an
\* edge-to-face swap, whatever its colour, the largest colour included
C29_EveryColourIsProcessed ==
  spc = "done" =>
    \A e \in LeftAliveAndSound : e \in s3.faceSeen /\ e \in s3.edgeSeen

-----------------------------------------------------------------------------
(* The boundary tags after a flip *)

\* the tag of the geometric edge (a,b): the plane of the facet of the
\* surface on it, 0 for an edge inside the domain
EdgeTag(a, b) ==
  IF \E f \in facets : f.n = {a, b}
  THEN (CHOOSE f \in facets : f.n = {a, b}).plane
  ELSE 0

\* the edge opposite local vertex f (0-based) of the triple n
OppositeEdge(n, f) == <<n[((f + 1) % 3) + 1], n[((f + 2) % 3) + 1]>>

\* boundary[e] describes element e as ENList has it
TagsMatch(e) ==
  \A f \in 0..2 :
    boundary[e][f + 1] = EdgeTag(OppositeEdge(ENList[e], f)[1], OppositeEdge(ENList[e], f)[2])

\* the elements rewritten by the flips of this call
Rewritten == UNION {{flips[x].eid0, flips[x].eid1} : x \in DOMAIN flips}

\* C31: after any committed flip, the boundary tag stored for local facet f
\* of each rewritten element is the tag of the geometric edge that is now
\* opposite local vertex f: 0 for the new diagonal, the old tag for each of
\* the four lateral edges
C31_TagsFollowTheFlip ==
  \A e \in Rewritten : TagsMatch(e)

-----------------------------------------------------------------------------
(* Phase 1 with the re-evaluation of coarsen_kernel in steps.  Nothing      *)
(* orders the threads of Phase 1, and the re-evaluation of a neighbour of   *)
(* the target reads the mesh and then writes dynamic_vertex of a vertex     *)
(* that may belong to the other part: here the change of the mesh is one    *)
(* step and every call of coarsen_identify_kernel and every write of its    *)
(* result is a step of its own.                                             *)

\* the vertices coarsen_kernel evaluates again, in the order of lines 470-475
ReevaluationOrder(NN, target_vertex) ==
  SelectSeq(<<target_vertex>> \o NN[target_vertex], is_owned_node)

\* coarsen_kernel up to "dynamic_vertex[rm_vertex] = -1;"
RaceCollapse(tid) ==
  /\ cpc = "phase1"
  /\ cth[tid].pc = "loop"
  /\ cth[tid].it <= Len(tdynamic_vertex[tid])
  /\ dynamic_vertex[tdynamic_vertex[tid][cth[tid].it]] >= 0
  /\ \E remove_vertex \in {tdynamic_vertex[tid][cth[tid].it]} :
     \E target_vertex \in {dynamic_vertex[remove_vertex]} :
     \E c \in {Collapse(CurrentMesh, remove_vertex, target_vertex)} :
       /\ NNList' = c.M.NN
       /\ NEList' = c.M.NE
       /\ ENList' = c.M.EN
       /\ facets' = c.M.F
       /\ dynamic_vertex' = [dynamic_vertex EXCEPT ![remove_vertex] = -1]
       /\ cpc' = IF c.ok THEN "phase1" ELSE "abort"
       /\ lastCollapse' = [rm_vertex |-> remove_vertex, target_vertex |-> target_vertex,
                           before |-> CurrentMesh]
       /\ erased' = erased \cup {remove_vertex}
       /\ cth' = [cth EXCEPT ![tid] =
                    [pc |-> "identify", it |-> cth[tid].it, cnt |-> cth[tid].cnt,
                     todo |-> ReevaluationOrder(c.M.NN, target_vertex), value |-> -1]]
  /\ UNCHANGED <<NNodes, NElements, boundary, coords, metric, lnn2gnn, node_owner,
                 recv_halo, send_halo, L_low, L_max, ci, phase_2, sweeps, cthreads,
                 tpartition, tdynamic_vertex, refineVars, swapVars>>

\* "coarsen_identify_kernel(*jt, _L_low, _L_max)": the call
RaceIdentify(tid) ==
  /\ cpc = "phase1"
  /\ cth[tid].pc = "identify"
  /\ cth[tid].todo # <<>>
  /\ cth' = [cth EXCEPT ![tid].pc = "write",
                        ![tid].value = coarsen_identify_kernel(CurrentMesh, Head(cth[tid].todo))]
  /\ UNCHANGED <<meshVars, dynamic_vertex, L_low, L_max, cpc, ci, phase_2, sweeps,
                 lastCollapse, erased, cthreads, tpartition, tdynamic_vertex,
                 refineVars, swapVars>>

\* "dynamic_vertex[*jt] = ...": the result of the call is stored
RaceWrite(tid) ==
  /\ cpc = "phase1"
  /\ cth[tid].pc = "write"
  /\ dynamic_vertex' = [dynamic_vertex EXCEPT ![Head(cth[tid].todo)] = cth[tid].value]
  /\ cth' = [cth EXCEPT ![tid].pc = "identify", ![tid].todo = Tail(@), ![tid].value = -1]
  /\ UNCHANGED <<meshVars, L_low, L_max, cpc, ci, phase_2, sweeps,
                 lastCollapse, erased, cthreads, tpartition, tdynamic_vertex,
                 refineVars, swapVars>>

\* the end of coarsen_kernel: "cnt++;" and the next vertex of the list
RaceReturn(tid) ==
  /\ cpc = "phase1"
  /\ cth[tid].pc = "identify"
  /\ cth[tid].todo = <<>>
  /\ cth' = [cth EXCEPT ![tid] = [pc |-> "loop", it |-> cth[tid].it + 1,
                                  cnt |-> cth[tid].cnt + 1]]
  /\ UNCHANGED <<meshVars, dynamic_vertex, L_low, L_max, cpc, ci, phase_2, sweeps,
                 lastCollapse, erased, cthreads, tpartition, tdynamic_vertex,
                 refineVars, swapVars>>

NextCoarsenRace ==
  \/ coarsen
  \/ CoarsenInitialise
  \/ Phase1Partition
  \/ \E t \in Threads : Phase1List(t)
  \/ \E t \in Threads : RaceCollapse(t)
  \/ \E t \in Threads : RaceIdentify(t)
  \/ \E t \in Threads : RaceWrite(t)
  \/ \E t \in Threads : RaceReturn(t)
  \/ \E t \in Threads : Phase1Skip(t)
  \/ \E t \in Threads : Phase1Again(t)
  \/ \E t \in Threads : Phase1Done(t)
  \/ Phase1Barrier
  \/ Phase2Collapse
  \/ Phase2Skip
  \/ Phase2NextPass
  \/ Phase2Exit

SpecCoarsenRace == InitCoarsenThreads /\ [][NextCoarsenRace]_vars

\* the calls coarsen_kernel(v, t) that the next statement of some thread
\* makes: in Phase 1 for the vertex the iterator is at, in Phase 2 for ci
KernelCalls ==
  IF cpc = "phase1"
  THEN {<<tdynamic_vertex[tid][cth[tid].it], dynamic_vertex[tdynamic_vertex[tid][cth[tid].it]]>> :
          tid \in {x \in Threads : /\ cth[x].pc = "loop"
                                   /\ cth[x].it <= Len(tdynamic_vertex[x])
                                   /\ dynamic_vertex[tdynamic_vertex[x][cth[x].it]] >= 0}}
  ELSE IF cpc = "phase2" /\ ci < NNodes /\ Phase2Dynamic(dynamic_vertex, ci)
       THEN {<<ci, dynamic_vertex[ci]>>}
       ELSE {}

\* the vertex has not been erased
AliveVertex(v) == NNList[v] # <<>> /\ NEList[v] # {}

\* C32: whenever coarsen_kernel(v, t) is invoked, in Phase 1 or in Phase 2
\* and under any interleaving of the threads, v is alive, t is alive, t is
\* not v and t is an entry of NNList[v]
C32_KernelTargetIsNeighbour ==
  \A call \in KernelCalls :
    /\ AliveVertex(call[1])
    /\ AliveVertex(call[2])
    /\ call[2] # call[1]
    /\ call[2] \in Range(NNList[call[1]])

\* ---------------------------------------------------------------------------
\* Phase 2 exit (Coarsen2D.h 215-245)

\* the vertices Phase 1 and Phase 2 may collapse
NonHalo == {v \in 0..(NNodes-1) : ~is_halo_node(v)}

\* the value "dynamic_vertex[i] = coarsen_identify_kernel(i, _L_low, _L_max)"
\* of a coarsen called again on the present mesh with the same L_low, L_max
RepeatedTargets ==
  [i \in 0..(NNodes-1) |-> coarsen_identify_kernel(CurrentMesh, i)]

\* C33: when Phase 2 has exited, dynamic_vertex[v] is negative for every
\* non-halo vertex v and is the value coarsen_identify_kernel(v) returns on
\* the final mesh, so that a repeated coarsen with the same L_low and L_max
\* starts with no non-halo vertex to collapse
C33_NothingPendingAtExit ==
  cpc = "done" =>
    \A v \in NonHalo : /\ dynamic_vertex[v] < 0
                       /\ dynamic_vertex[v] = RepeatedTargets[v]

\* coarsen has returned after collapsing at least one vertex next to a
\* surviving non-halo vertex whose target was re-evaluated to "none"
C33_Witness ==
  /\ cpc = "done"
  /\ erased # {}
  /\ \E v \in NonHalo : NNList[v] # <<>> /\ dynamic_vertex[v] = -2

\* ---------------------------------------------------------------------------
\* Termination of coarsen (Coarsen2D.h 195-208, 220-244)

\* the inputs of both kinds: the grid with one thread, with and without a
\* halo column, and the strip with two threads
InitCoarsenFair == InitCoarsen \/ InitCoarsenThreads

\* the statements of the parallel region that one thread executes alone
CoarsenStep ==
  \/ CoarsenInitialise
  \/ Phase1Partition
  \/ Phase1Barrier
  \/ Phase2Collapse
  \/ Phase2Skip
  \/ Phase2NextPass
  \/ Phase2Exit

\* the statements of the Phase 1 loop of thread tid
ThreadStep(tid) ==
  \/ Phase1List(tid)
  \/ Phase1Collapse(tid)
  \/ Phase1Skip(tid)
  \/ Phase1Again(tid)
  \/ Phase1Done(tid)

\* the states in which the single thread has a next statement to execute
CoarsenStepEnabled ==
  \/ cpc \in {"init", "partition", "phase2"}
  \/ cpc = "phase1" /\ \A tid \in Threads : cth[tid].pc = "barrier"

\* the states in which thread tid is inside its Phase 1 loop
ThreadStepEnabled(tid) == cpc = "phase1" /\ cth[tid].pc \in {"list", "loop"}

\* the loop control of Phase 2 and the barrier
LoopControl == Phase2Skip \/ Phase2NextPass \/ Phase2Exit \/ Phase1Barrier

\* coarsen under a scheduler that lets every thread of the team run: a thread
\* that can execute its next statement eventually does. The weak fairness of
\* CoarsenStep and of ThreadStep(tid) is written with their enabling
\* conditions spelled out
SpecCoarsenFair ==
  /\ InitCoarsenFair
  /\ [][NextCoarsenThreads]_vars
  /\ WF_vars(LoopControl)
  /\ ([]<>(~CoarsenStepEnabled) \/ []<><<CoarsenStep>>_vars)
  /\ \A tid \in Threads :
       ([]<>(~ThreadStepEnabled(tid)) \/ []<><<ThreadStep(tid)>>_vars)

\* "cnt++" and "phase_2 = true" are reached only behind a coarsen_kernel call
RequestsAnotherPass ==
  \/ phase_2' /\ ~phase_2
  \/ /\ cpc = "phase1" /\ cpc' = "phase1"
     /\ \E tid \in Threads : cth[tid].pc = "loop" /\ cth'[tid].pc = "loop"
                             /\ cth'[tid].cnt > cth[tid].cnt

\* C34: coarsen terminates. Every call returns after finitely many passes of
\* the Phase 1 loops and of the Phase 2 loop, and a step that requests
\* another pass (cnt incremented, phase_2 set) has erased a vertex that was
\* alive; a halo neighbour with dynamic_vertex >= 0 does not keep Phase 2
\* looping
C34_CoarsenTerminates ==
  /\ [](cpc = "init" => <>(cpc = "done"))
  /\ [][RequestsAnotherPass =>
          /\ Cardinality(erased') = Cardinality(erased) + 1
          /\ \E v \in erased' \ erased : NNList[v] # <<>> /\ NNList'[v] = <<>>]_vars

\* Phase 2 ends a pass asking for another one while the only vertices with a
\* target left are halo vertices
C34_Witness ==
  /\ cpc = "phase2"
  /\ ci = NNodes
  /\ phase_2
  /\ \E v \in 0..(NNodes-1) : is_halo_node(v) /\ dynamic_vertex[v] >= 0
  /\ \A v \in NonHalo : dynamic_vertex[v] < 0

\* ---------------------------------------------------------------------------
\* The effect of one collapse (Coarsen2D.h 410-467)

\* the elements of an element-node list that have not been erased
AliveIn(EN) == {e \in DOMAIN EN : EN[e][1] >= 0}

\* the alive elements of EN that hold both ends of the edge
SharedBy(EN, edge) == {e \in AliveIn(EN) : edge \subseteq Range(EN[e])}

\* the mesh before the last collapse, the vertex removed and its target
CollapseDone == lastCollapse.rm_vertex >= 0

\* C35: one collapse v->t erases exactly the elements of NEList[v] \cap
\* NEList[t], one or two of them, and exactly the vertex v; afterwards
\* NNList[t] holds (old NNList[t] \cup old NNList[v]) \ {v, t}, no alive
\* element contains v or contains t twice, every edge is shared by one or two
\* alive elements, and the lists of the vertices other than v, t and the old
\* neighbours of v, and the elements away from v, are unchanged
C35_CollapseIsLocal ==
  CollapseDone =>
    LET B == lastCollapse.before
        v == lastCollapse.rm_vertex
        t == lastCollapse.target_vertex
        deleted_elements == B.NE[v] \cap B.NE[t]
        touched == {v, t} \cup Range(B.NN[v])
    IN /\ Cardinality(deleted_elements) \in {1, 2}
       /\ AliveIn(ENList) = AliveIn(B.EN) \ deleted_elements
       /\ {x \in DOMAIN NNList : NNList[x] # <<>>} =
            {x \in DOMAIN B.NN : B.NN[x] # <<>>} \ {v}
       /\ NEList[v] = {}
       /\ Range(NNList[t]) = (Range(B.NN[t]) \cup Range(B.NN[v])) \ {v, t}
       /\ Len(NNList[t]) = Cardinality(Range(NNList[t]))
       /\ \A e \in AliveIn(ENList) :
            /\ v \notin Range(ENList[e])
            /\ Cardinality(Range(ENList[e])) = 3
       /\ \A edge \in EdgesOf(ENList) : Cardinality(SharedBy(ENList, edge)) \in {1, 2}
       /\ \A x \in DOMAIN NNList \ touched :
            NNList[x] = B.NN[x] /\ NEList[x] = B.NE[x]
       /\ \A e \in DOMAIN ENList \ B.NE[v] : ENList[e] = B.EN[e]

\* a collapse that erased two elements and handed the target neighbours it
\* did not have has happened, after an earlier collapse
C35_Witness ==
  /\ CollapseDone
  /\ Cardinality(lastCollapse.before.NE[lastCollapse.rm_vertex]
                   \cap lastCollapse.before.NE[lastCollapse.target_vertex]) = 2
  /\ Range(lastCollapse.before.NN[lastCollapse.rm_vertex])
        \ (Range(lastCollapse.before.NN[lastCollapse.target_vertex])
              \cup {lastCollapse.target_vertex}) # {}
  /\ Cardinality(erased) >= 2

\* ---------------------------------------------------------------------------
\* The assertions on the commit path of a 2D flip (part_000 374-433)

\* a second input of swap: a hexagon triangulated as a fan around its vertex
\* 0, where the flips of the edges (0,2) and (0,4) both raise the quality and
\* share the lateral vertex 3
FanCoords   == ZeroBased(<< <<2,0>>, <<3,0>>, <<4,1>>, <<2,2>>, <<0,2>>, <<0,1>> >>)
FanElements == << <<0,1,2>>, <<0,2,3>>, <<0,3,4>>, <<0,4,5>> >>
FanBoundary == << <<2,0,1>>, <<3,0,0>>, <<4,0,0>>, <<5,6,0>> >>

InitSwapFan ==
  /\ NNodes = 6
  /\ NElements = 4
  /\ ENList = ZeroBased(FanElements)
  /\ NNList = create_adjacency(ZeroBased(FanElements), 6).NN
  /\ NEList = create_adjacency(ZeroBased(FanElements), 6).NE
  /\ coords = FanCoords
  /\ facets = {[n |-> {c, (c+1) % 6}, plane |-> c+1] : c \in 0..5}
  /\ \/ /\ recv_halo = {} /\ send_halo = {}
        /\ node_owner = [v \in 0..5 |-> 0]
     \/ /\ recv_halo = {1} /\ send_halo = {0, 2}
        /\ node_owner = [v \in 0..5 |-> IF v = 1 THEN 1 ELSE 0]
  /\ boundary = ZeroBased(FanBoundary)
  /\ metric = [v \in 0..5 |-> 1]
  /\ lnn2gnn = [v \in 0..5 |-> v]
  /\ dynamic_vertex = <<>>
  /\ L_low = 0 /\ L_max = 0
  /\ cpc = "constructed"
  /\ ci = 0
  /\ phase_2 = FALSE
  /\ sweeps = 0
  /\ lastCollapse = NoCollapse
  /\ erased = {}
  /\ cthreads = nthreads
  /\ Phase1Idle
  /\ RefineIdle
  /\ SwapIdle

\* swap on the hexagons of InitSwap and on the fan
SpecSwapFan == (InitSwap \/ InitSwapFan) /\ [][NextSwap]_vars

\* the threads about to execute "if(new_worst_q>worst_q)" with a flip that
\* will be committed
AboutToCommit ==
  {t \in Threads :
     /\ spc = "flip"
     /\ th[t].pc = "decide"
     /\ Improves(QMin(TriangleQuality(n_swap(th[t].n, th[t].m, th[t].n_off, th[t].m_off)),
                      TriangleQuality(m_swap(th[t].n, th[t].m, th[t].n_off, th[t].m_off))),
                 QMin(quality[th[t].eid0], quality[th[t].eid1]))}

\* "idx_in_n = originalNeighborIndex(lateral_n, i)" unless already known
IndexOfI(t, lateral, cached) ==
  IF cached = -1 THEN originalNeighborIndex(NNList, originalVertexDegree, lateral, th[t].i)
  ELSE cached

\* "pos = originalVertexDegree[lateral] + idx_in"
FirstSlot(lateral, idx_in) == originalVertexDegree[lateral] + idx_in

\* "if(NNList[lateral][pos] != -1) pos += originalVertexDegree[lateral]"
ChosenSlot(lateral, idx_in) ==
  IF NNList[lateral][FirstSlot(lateral, idx_in) + 1] # -1
  THEN FirstSlot(lateral, idx_in) + originalVertexDegree[lateral]
  ELSE FirstSlot(lateral, idx_in)

\* "assert(_mesh->NNList[lateral][pos] == -1)"
SlotIsEmpty(lateral, idx_in) ==
  /\ idx_in < originalVertexDegree[lateral]
  /\ ChosenSlot(lateral, idx_in) < Len(NNList[lateral])
  /\ NNList[lateral][ChosenSlot(lateral, idx_in) + 1] = -1

\* "it = std::find(begin, begin+halfSize, old); assert(it != begin+halfSize);
\*  it += halfSize; assert(*it == -1)"
ElementSlotIsEmpty(vertex, old) ==
  LET halfSize == Len(localNEList[vertex]) \div 2
      p == IndexOf(FirstHalf(localNEList[vertex]), old)
  IN p # 0 /\ localNEList[vertex][p + halfSize] = -1

\* "assert(it != begin+halfSize); assert(*it == eid)"
ElementIsFound(vertex, eid) == IndexOf(FirstHalf(localNEList[vertex]), eid) # 0

BoundaryEdgesOf(EN) == {edge \in EdgesOf(EN) : Cardinality(SharedBy(EN, edge)) # 2}

\* swap() has been entered: the mesh it started from is recorded
InSwap == spc \in {"while", "flip", "compact", "done"}

\* thread t is at the head of the loop over it, at a marked edge of its
\* vertex that is not shared by exactly two alive elements
AtBoundaryEdge(t) ==
  /\ spc = "flip"
  /\ th[t].pc = "edge"
  /\ th[t].it < originalVertexDegree[th[t].i]
  /\ marked_edges[th[t].i][th[t].it + 1] = 1
  /\ NNList[th[t].i][th[t].it + 1] >= 0
  /\ Cardinality(SharedBy(ENList, {th[t].i, NNList[th[t].i][th[t].it + 1]})) # 2

NonSentinel(list) == {list[k] : k \in {j \in DOMAIN list : list[j] # -1}}

\* the number of entries of a list that are not the sentinel
CountOf(list) == Cardinality({j \in DOMAIN list : list[j] # -1})

\* the neighbours of v whose edge is marked: original positions with mark 1
MarkedNeighbours(NN, marks, deg, v) ==
  {NN[v][k] : k \in {j \in 1..deg[v] : j <= Len(marks[v]) /\ marks[v][j] = 1 /\ NN[v][j] # -1}}

\* the step of the compaction loop for a vertex that has neighbours
CompactStep == spc = "compact" /\ si < NNodes /\ si' = si + 1 /\ Len(NNList[si]) > 0

\* "int NEextend = (n_marked_edges > 0 ? 2 : 1)"
NEextendNow == IF n_marked_edges > 0 THEN 2 ELSE 1

\* C38: the compaction preserves content. For the vertex v compacted,
\* NNList[v][0..originalVertexDegree[v]) holds afterwards exactly the
\* non-sentinel entries it held before, each once and no -1, and
\* originalVertexDegree[v] is their number; the local NEList holds its
\* non-sentinel entries at the front and the length kept for them (the
\* vector's size over NEextend) is their number; the neighbours whose edge
\* is marked are the same before and after, so no unmarked or newly inserted
\* edge becomes marked
C38_CompactionPreservesContent ==
  [][CompactStep =>
       LET v == si
           d == originalVertexDegree'[v]
           n == CountOf(localNEList[v])
       IN /\ d = CountOf(NNList[v])
          /\ d = Cardinality(NonSentinel(NNList[v]))
          /\ d <= Len(NNList'[v])
          /\ Range(SubSeq(NNList'[v], 1, d)) = NonSentinel(NNList[v])
          /\ n = Cardinality(NonSentinel(localNEList[v]))
          /\ n <= Len(localNEList'[v])
          /\ Range(SubSeq(localNEList'[v], 1, n)) = NonSentinel(localNEList[v])
          /\ Len(localNEList'[v]) = NEextendNow * n
          /\ Len(marked_edges'[v]) = d
          /\ MarkedNeighbours(NNList', marked_edges', originalVertexDegree', v)
               = MarkedNeighbours(NNList, marked_edges, originalVertexDegree, v)]_vars

-----------------------------------------------------------------------------
(* The deferred operations of one refine sweep.  refine_element queues     *)
(* additions to NNList and additions to and removals from NEList; it never *)
(* queues a removal from NNList.                                           *)

\* the (vertex, value) pairs that the threads have queued in queue f
QueuedPairs(f) == UNION {Range(deferred[t][f]) : t \in Threads}

\* the number of entries of queue f, threads t and above
RECURSIVE QueuedCount(_, _)
QueuedCount(f, t) ==
  IF t = nthreads THEN 0 ELSE Len(deferred[t][f]) + QueuedCount(f, t + 1)

\* the values queued in f for vertex v
QueuedFor(f, v) == {p[2] : p \in {q \in QueuedPairs(f) : q[1] = v}}

\* no pair is both added and removed, and no addition is queued twice
QueuesAreDisjoint ==
  DOMAIN deferred = Threads =>
    /\ QueuedPairs("addNE") \cap QueuedPairs("remNE") = {}
    /\ QueuedCount("addNN", 0) = Cardinality(QueuedPairs("addNN"))
    /\ QueuedCount("addNE", 0) = Cardinality(QueuedPairs("addNE"))

\* the two buckets committed in either order, from the current state
CommitInOrder(first, second) ==
  commit_deferred(commit_deferred([NN |-> NNList, NE |-> NEList, ok |-> TRUE],
                                  first, 0), second, 0)

BucketsCommute ==
  (rpc = "commit" /\ ri = 0) =>
     \A a, b \in 0..(NBuckets-1) : CommitInOrder(a, b) = CommitInOrder(b, a)

\* a step of the commit loop: what bucket ri leaves depends on the set of
\* queued pairs only, and on nothing of another bucket
CommitByContent ==
  (rpc = "commit" /\ ri < NBuckets /\ ri' = ri + 1) =>
     /\ \A v \in 0..(NNodes-1) :
          IF hash(v) = ri
          THEN /\ Range(NNList'[v]) = Range(NNList[v]) \cup QueuedFor("addNN", v)
               /\ Len(NNList'[v]) = Len(NNList[v]) + Cardinality(QueuedFor("addNN", v))
               /\ NEList'[v] = (NEList[v] \ QueuedFor("remNE", v)) \cup QueuedFor("addNE", v)
          ELSE NNList'[v] = NNList[v] /\ NEList'[v] = NEList[v]
     /\ \A t \in Threads : \A f \in {"addNN", "remNE", "addNE"} :
          deferred'[t][f] = SelectSeq(deferred[t][f], LAMBDA op : hash(op[1]) # ri)

\* C39: in one refine sweep no (vertex, element) pair is queued both as an
\* addition and as a removal (no removal of a neighbour is queued at all) and
\* no addition is queued twice; committing the two buckets in either order
\* gives the same lists, and each bucket's commit leaves for every vertex the
\* content fixed by the set of queued pairs, whichever thread queued them.
C39_DeferredOperationsCommute ==
  /\ [](QueuesAreDisjoint /\ BucketsCommute)
  /\ [][CommitByContent]_vars

\* bucket 0 is committed and has changed an element list; bucket 1 still
\* holds additions to both lists that both threads queued for one vertex,
\* and a removal is queued
C39_Witness ==
  /\ rpc = "commit" /\ ri = 1
  /\ \E v \in DOMAIN pre.NN : hash(v) = 0 /\ NEList[v] # pre.NE[v]
  /\ \E v \in 0..(NNodes-1) :
       /\ hash(v) = 1
       /\ \E p \in Range(deferred[0].addNN) : p[1] = v
       /\ \E p \in Range(deferred[1].addNN) : p[1] = v
       /\ \E p \in Range(deferred[0].addNE) : p[1] = v
       /\ \E p \in Range(deferred[1].addNE) : p[1] = v
  /\ QueuedPairs("remNE") # {}
=============================================================================
